---- MODULE Spec2Model ----
(***************************************************************************)
(* Verification model of the Gale yearbook scrapers:                       *)
(*   - scraping/crawl_yearbook.py     the reconciler (cleanup_manifest)    *)
(*   - yb_direct_download_scraper.py  the direct-download scraper (both    *)
(*                                    variants)                            *)
(*   - scraping/scrape_yearbook.py    the crawler driving ManifestState    *)
(* The module manifest_state (ManifestState, FileLock, CSV_HEADERS) is     *)
(* imported by the sources but is not part of them; its operations are     *)
(* modelled from the specification and are marked as such.                 *)
(***************************************************************************)
EXTENDS Integers, Sequences, FiniteSets, TLC

(***************************************************************************)
(* Bounds of the model.                                                    *)
(***************************************************************************)
\* longest ledger the reconciler is started on
MaxRows == 3

\* highest version of one (period, url) the crawler is followed to
MaxVer == 3

\* number of distinct contents a remote file goes through
MaxContent == 3

\* the same, while the direct-download scraper is followed
DdMaxContent == 2

\* number of runs of the direct-download scraper that are followed
DdMaxRuns == 2

\* number of runs of the crawler that are followed
CrMaxRuns == 3

(***************************************************************************)
(* Paths.  A file name is stem + optional version suffix + extension       *)
(* ("a.pdf", "b.v2.zip", "b"); a path adds whether it is written absolute. *)
(* Existence depends on the place named, not on how the path is written.   *)
(***************************************************************************)
Name(stem, ver, ext) == [stem |-> stem, ver |-> ver, ext |-> ext]

PathOf(abs, name) == [abs |-> abs, name |-> name]

\* the empty saved_path column
NoPath == [abs |-> FALSE, name |-> Name("", 0, "")]

\* Path.resolve(): the absolute form of the same place
Resolve(p) == [p EXCEPT !.abs = TRUE]

\* Path.with_suffix(''): the last suffix is stripped
WithSuffixNone(p) == [p EXCEPT !.name.ext = ""]

\* str.endswith('.zip')
EndsWithZip(p) == p.name.ext = ".zip"

\* the n-th content served at a url
Bytes(u, n) == [src |-> u, n |-> n]

\* an entry of the file system: nothing, a file holding data, or a directory
\* holding the data expanded into it
NoEntry == [kind |-> "none", data |-> {}]

FileEntry(c) == [kind |-> "file", data |-> {c}]

\* the first chunks of a body of url u, short of the whole body: no body the
\* site serves has n = 0
PartialBytes(u) == [src |-> u, n |-> 0]

DirEntry(cs) == [kind |-> "dir", data |-> cs]

\* Path.exists()
PathExists(f, p) == p.name \in DOMAIN f /\ f[p.name].kind # "none"

\* Path.is_dir()
PathIsDir(f, p) == p.name \in DOMAIN f /\ f[p.name].kind = "dir"

\* the places of the model: a.pdf, b.zip and the directory b, and their
\* versioned forms a.v2.pdf, b.v2.zip, b.v2, ...
Suffixes == {0} \cup (2..MaxVer)

Places ==
    {Name("a", v, ".pdf") : v \in Suffixes}
        \cup {Name("b", v, ".zip") : v \in Suffixes}
        \cup {Name("b", v, "") : v \in Suffixes}

EmptyFs == [pl \in Places |-> NoEntry]

VARIABLES
    fs,          \* the file system: place -> entry
    files,       \* the CSV files: "ledger" and "tmp" -> content or Absent
    lock,        \* holder of the ledger's advisory lock, or "free"
    rc_pc,       \* cleanup_manifest: position
    rc_rows,     \* cleanup_manifest: rows as read
    rc_valid,    \* cleanup_manifest: valid_rows
    rc_removed,  \* cleanup_manifest: removed_count
    rc_out,      \* cleanup_manifest: rows of valid_rows written so far
    rc_pre       \* the ledger file as it was when cleanup_manifest started

rcVars == <<fs, files, lock, rc_pc, rc_rows, rc_valid, rc_removed, rc_out, rc_pre>>

VARIABLES
    remote,      \* the web site: url -> content and validators served
    dd_variant,  \* which direct-download scraper runs: "headers" or "flat"
    dd_links,    \* the links the yearbook page lists, in order
    dd_disk,     \* download_manifest.json on disk
    dd_mem,      \* the manifest dictionary of the running scraper
    dd_pc,       \* direct-download scraper: position
    dd_i,        \* direct-download scraper: index of the next link
    dd_run,      \* number of runs started
    dd_seen,     \* url -> what the site served when the url was last processed
    dd_last      \* url -> what the last processing of the url did

ddVars == <<remote, dd_variant, dd_links, dd_disk, dd_mem, dd_pc, dd_i, dd_run,
            dd_seen, dd_last>>

VARIABLES
    cr_mode,      \* the mode ManifestState is constructed with
    cr_links,     \* the links the yearbook page lists, in order
    cr_rows,      \* the rows ManifestState holds
    cr_pc,        \* crawler: position
    cr_i,         \* crawler: index of the link being processed
    cr_run,       \* number of runs started
    cr_plan,      \* decision: what plan returned for the link
    cr_head,      \* what the HEAD request of plan returned
    cr_versioned, \* versioned
    cr_saved,     \* saved: what download_and_record returned, NoPath for None
    counts,       \* counts
    cr_exit       \* the exit status of the process that has ended, and how
                  \* its discovery went

crVars == <<cr_mode, cr_links, cr_rows, cr_pc, cr_i, cr_run, cr_plan, cr_head,
            cr_versioned, cr_saved, counts, cr_exit>>

\* the variables only the reconciler uses, and only the direct-download scraper
rcLocals == <<rc_pc, rc_rows, rc_valid, rc_removed, rc_out, rc_pre>>

ddLocals == <<dd_variant, dd_links, dd_disk, dd_mem, dd_pc, dd_i, dd_run,
              dd_seen, dd_last>>

VARIABLES
    pp_pc,        \* two concurrent direct-download scrapers: position of each
    pp_mem,       \* the manifest dictionary of each
    pp_i          \* the index of the next link of each

ppVars == <<pp_pc, pp_mem, pp_i>>

VARIABLES
    rt_fn,        \* a retrying request: the function called
    rt_pc,        \* its position
    rt_hist,      \* the outcomes of its attempts so far, in order
    rt_sleeps,    \* the backoff delays it has slept, in order, in seconds
    rt_backoff    \* the delay of its next backoff

rtVars == <<rt_fn, rt_pc, rt_hist, rt_sleeps, rt_backoff>>

VARIABLES
    pl_pc,        \* run_yearbook.py and the processes it starts: the position
    pl_site,      \* the years of the yearbooks the site lists, newest first
    pl_year,      \* the year of the yearbook the crawler is at
    pl_rest,      \* the years of the yearbooks the crawler has still to visit
    pl_errors,    \* how many errors the crawler has logged outside the items
    pl_page,      \* what the page of the last yearbook visited gave
    pl_cycle,     \* how many times run_yearbook.py has been started
    pl_i,         \* the index of the next link of the crawler it started
    pl_status,    \* the exit status of the reconciler, the crawler and itself
    pl_tmp,       \* the year folders that hold an empty .tmp folder
    pl_fetched    \* (year, url) -> the first cycle that saved its file, 0: none

plVars == <<pl_pc, pl_site, pl_year, pl_rest, pl_errors, pl_page, pl_cycle, pl_i, pl_status,
            pl_tmp, pl_fetched>>

\* the variables of the parts added to the scrapers' own
xtVars == <<rtVars, plVars>>

vars == <<rcVars, ddVars, crVars, ppVars, xtVars>>

(***************************************************************************)
(* The ledger file.  A CSV file is a header line and rows; a file being    *)
(* written holds a prefix of what is written to it.                        *)
(***************************************************************************)
Absent == [present |-> FALSE, hdr |-> FALSE, rows |-> <<>>]

CsvFile(rows) == [present |-> TRUE, hdr |-> TRUE, rows |-> rows]

\* open(path, "w"): created or truncated
EmptyFile == [present |-> TRUE, hdr |-> FALSE, rows |-> <<>>]

Row(period, url, filename, saved_path, hash, etag, lm, version) ==
    [period |-> period, url |-> url, filename |-> filename,
     saved_path |-> saved_path, hash |-> hash, etag |-> etag,
     last_modified |-> lm, version |-> version]

(***************************************************************************)
(* cleanup_manifest of scraping/crawl_yearbook.py: the filter loop.        *)
(***************************************************************************)
\* FilterRow with is_file() where the code has exists(): a record saved as a
\* directory is dropped
FilterRowFilesOnly(f, row) ==
    IF row.saved_path # NoPath /\ PathExists(f, row.saved_path)
       /\ ~PathIsDir(f, row.saved_path)
    THEN [keep |-> <<row>>, removed |-> 0]
    ELSE [keep |-> <<>>, removed |-> 1]

\* one iteration of the loop over rows: the row kept (possibly rewritten),
\* or nothing kept and removed_count incremented
FilterRow(f, row) ==
    IF row.saved_path = NoPath
    THEN [keep |-> <<>>, removed |-> 1]
    ELSE IF PathExists(f, row.saved_path)
    THEN [keep |-> <<row>>, removed |-> 0]
    ELSE IF EndsWithZip(row.saved_path)
            /\ PathExists(f, WithSuffixNone(row.saved_path))
            /\ PathIsDir(f, WithSuffixNone(row.saved_path))
    THEN [keep |-> <<[row EXCEPT
                        !.saved_path = Resolve(WithSuffixNone(row.saved_path)),
                        !.filename = WithSuffixNone(row.saved_path).name]>>,
          removed |-> 0]
    ELSE [keep |-> <<>>, removed |-> 1]

RECURSIVE FilterRows(_, _)
\* the whole loop: valid_rows and removed_count
FilterRows(f, rows) ==
    IF rows = <<>>
    THEN [valid |-> <<>>, removed |-> 0]
    ELSE LET h == FilterRow(f, Head(rows))
             t == FilterRows(f, Tail(rows))
         IN  [valid |-> h.keep \o t.valid, removed |-> h.removed + t.removed]

\* the cleaned rows written straight to the manifest
WriteTargetInPlace == "ledger"

\* the file the cleaned rows are written to: manifest_path.with_suffix(".tmp.csv")
WriteTarget == "tmp"

\* the cleaned manifest written after every run
MustRewriteAlways(removed) == TRUE

\* the cleaned manifest is written only when something was removed
MustRewrite(removed) == removed > 0

(***************************************************************************)
(* cleanup_manifest, step by step.  The process may be terminated between  *)
(* any two steps.                                                          *)
(***************************************************************************)
RcLocalsReset ==
    /\ rc_rows' = <<>>
    /\ rc_valid' = <<>>
    /\ rc_removed' = 0
    /\ rc_out' = 0

\* lines 19-21: no manifest file, nothing to do
RcStart ==
    /\ rc_pc = "start"
    /\ rc_pc' = IF files["ledger"].present THEN "acquire" ELSE "done"
    /\ UNCHANGED <<fs, files, lock, rc_rows, rc_valid, rc_removed, rc_out, rc_pre>>
    /\ UNCHANGED <<ddVars, crVars, ppVars>>
    /\ UNCHANGED xtVars

\* lines 23-24: lock.acquire()
RcAcquire ==
    /\ rc_pc = "acquire"
    /\ lock = "free"
    /\ lock' = "reconcile"
    /\ rc_pc' = "read"
    /\ UNCHANGED <<fs, files, rc_rows, rc_valid, rc_removed, rc_out, rc_pre>>
    /\ UNCHANGED <<ddVars, crVars, ppVars>>
    /\ UNCHANGED xtVars

\* lines 28-62: read all rows, filter them
RcReadFilter ==
    /\ rc_pc = "read"
    /\ LET rows == files["ledger"].rows
           r == FilterRows(fs, rows)
       IN  /\ rc_rows' = rows
           /\ rc_valid' = r.valid
           /\ rc_removed' = r.removed
           /\ rc_pc' = IF MustRewrite(r.removed) THEN "open" ELSE "release"
    /\ UNCHANGED <<fs, files, lock, rc_out, rc_pre>>
    /\ UNCHANGED <<ddVars, crVars, ppVars>>
    /\ UNCHANGED xtVars

\* line 67: tmp.open("w")
RcOpenTmp ==
    /\ rc_pc = "open"
    /\ files' = [files EXCEPT ![WriteTarget] = EmptyFile]
    /\ rc_pc' = "header"
    /\ UNCHANGED <<fs, lock, rc_rows, rc_valid, rc_removed, rc_out, rc_pre>>
    /\ UNCHANGED <<ddVars, crVars, ppVars>>
    /\ UNCHANGED xtVars

\* line 69: writer.writeheader()
RcWriteHeader ==
    /\ rc_pc = "header"
    /\ files' = [files EXCEPT ![WriteTarget].hdr = TRUE]
    /\ rc_pc' = "rows"
    /\ UNCHANGED <<fs, lock, rc_rows, rc_valid, rc_removed, rc_out, rc_pre>>
    /\ UNCHANGED <<ddVars, crVars, ppVars>>
    /\ UNCHANGED xtVars

\* line 70: writer.writerows(valid_rows), one row at a time
RcWriteRow ==
    /\ rc_pc = "rows"
    /\ rc_out < Len(rc_valid)
    /\ files' = [files EXCEPT ![WriteTarget].rows = Append(@, rc_valid[rc_out + 1])]
    /\ rc_out' = rc_out + 1
    /\ UNCHANGED <<fs, lock, rc_pc, rc_rows, rc_valid, rc_removed, rc_pre>>
    /\ UNCHANGED <<ddVars, crVars, ppVars>>
    /\ UNCHANGED xtVars

\* line 72: tmp.replace(manifest_path), an atomic rename
RcReplace ==
    /\ rc_pc = "rows"
    /\ rc_out = Len(rc_valid)
    /\ files' = IF WriteTarget = "tmp"
                THEN [files EXCEPT !["ledger"] = files["tmp"], !["tmp"] = Absent]
                ELSE files
    /\ rc_pc' = "release"
    /\ UNCHANGED <<fs, lock, rc_rows, rc_valid, rc_removed, rc_out, rc_pre>>
    /\ UNCHANGED <<ddVars, crVars, ppVars>>
    /\ UNCHANGED xtVars

\* an exception that leaves the try block without passing the finally clause
AfterRaiseNoFinally == "raised"

\* lines 26 and 77: an exception raised inside the try block passes through
\* the finally clause before it leaves cleanup_manifest
AfterRaise == "release_exc"

\* lines 27-73: reading, filtering or writing raises (the CSV cannot be read
\* or decoded, a row lacks a column, the disk is full)
RcRaise ==
    /\ rc_pc \in {"read", "open", "header", "rows"}
    /\ rc_pc' = AfterRaise
    /\ UNCHANGED <<fs, files, lock, rc_rows, rc_valid, rc_removed, rc_out, rc_pre>>
    /\ UNCHANGED <<ddVars, crVars, ppVars>>
    /\ UNCHANGED xtVars

\* lines 77-78: finally: lock.release(), then the function returns or the
\* exception goes on
RcRelease ==
    /\ rc_pc \in {"release", "release_exc"}
    /\ lock' = "free"
    /\ rc_pc' = IF rc_pc = "release" THEN "done" ELSE "raised"
    /\ UNCHANGED <<fs, files, rc_rows, rc_valid, rc_removed, rc_out, rc_pre>>
    /\ UNCHANGED <<ddVars, crVars, ppVars>>
    /\ UNCHANGED xtVars

\* the process is terminated; the system drops its advisory lock
RcCrash ==
    /\ rc_pc \notin {"start", "done", "raised", "crashed"}
    /\ rc_pc' = "crashed"
    /\ lock' = IF lock = "reconcile" THEN "free" ELSE lock
    /\ UNCHANGED <<fs, files, rc_rows, rc_valid, rc_removed, rc_out, rc_pre>>
    /\ UNCHANGED <<ddVars, crVars, ppVars>>
    /\ UNCHANGED xtVars

\* crawl_yearbook.py is run again (main, lines 80-86)
RcRestart ==
    /\ rc_pc \in {"done", "raised", "crashed"}
    /\ rc_pc' = "start"
    /\ rc_pre' = files["ledger"]
    /\ RcLocalsReset
    /\ UNCHANGED <<fs, files, lock>>
    /\ UNCHANGED <<ddVars, crVars, ppVars>>
    /\ UNCHANGED xtVars

(***************************************************************************)
(* The web site.                                                           *)
(***************************************************************************)
Urls == {"u1", "u2"}

\* the ETag and Last-Modified headers a response may carry; "" is no header
Validators ==
    {[etag |-> "", lm |-> ""], [etag |-> "e1", lm |-> "m1"],
     [etag |-> "e2", lm |-> "m1"], [etag |-> "e1", lm |-> "m2"]}

RemoteState(n, v) == [n |-> n, etag |-> v.etag, lm |-> v.lm]

RemoteStates == {RemoteState(n, v) : n \in 1..MaxContent, v \in Validators}

\* the urls whose file or validators change while a scraper is followed
ChangingUrls == {"u1"}

\* what a HEAD request returns: failed, or the validators served
HeadFailed == [ok |-> FALSE, etag |-> "", lm |-> ""]

HeadOf(r) == [ok |-> TRUE, etag |-> r.etag, lm |-> r.lm]

(***************************************************************************)
(* The direct-download scraper: yb_direct_download_scraper.py ("headers")  *)
(* and direct_download_scraping/yb_direct_download_scraper.py ("flat").    *)
(***************************************************************************)
Year == 2023

\* file_key = f"{year}/{filename}"
FileKey(year, filename) == [year |-> year, filename |-> filename]

DdFilenames == {Name("a", 0, ".pdf"), Name("b", 0, ".zip")}

DdKeys == {FileKey(Year, n) : n \in DdFilenames}

Link(url, filename) == [url |-> url, filename |-> filename]

\* the link lists a yearbook page may give: two files, or two urls whose
\* paths end in the same file name
DdLinkLists ==
    {<<Link("u1", Name("a", 0, ".pdf")), Link("u2", Name("b", 0, ".zip"))>>,
     <<Link("u1", Name("a", 0, ".pdf")), Link("u2", Name("a", 0, ".pdf"))>>}

\* a hash that is not taken from the bytes of the file
compute_file_hashOfNothing(f, name) == [sha256 |-> {}]

\* hashlib.sha256 over the bytes of the file
compute_file_hash(f, name) == [sha256 |-> f[name].data]

\* the header_key string f"{etag}|{last_modified}"; unset: no key stored
HeaderKey(etag, lm) == [set |-> TRUE, etag |-> etag, lm |-> lm]

NoKey == [set |-> FALSE, etag |-> "", lm |-> ""]

\* truth value of a stored key: None is false, a stored string always holds "|"
KeyTruthy(k) == k.set

NoFile == [present |-> FALSE, url |-> "", hash |-> [sha256 |-> {}],
           year |-> 0, filename |-> Name("", 0, ""), timestamp |-> 0]

FileRecord(url, hash, year, filename, timestamp) ==
    [present |-> TRUE, url |-> url, hash |-> hash, year |-> year,
     filename |-> filename, timestamp |-> timestamp]

\* {"files": {}, "_url_meta": {}}
EmptyManifest == [files |-> [k \in DdKeys |-> NoFile], meta |-> [u \in Urls |-> NoKey]]

\* the manifest file: absent, cut short by an interrupted write, or whole
DiskAbsent == [state |-> "absent", manifest |-> EmptyManifest]

DiskPartial == [state |-> "partial", manifest |-> EmptyManifest]

DiskWhole(m) == [state |-> "whole", manifest |-> m]

\* a manifest file that parses as JSON but is no dictionary: a non-empty list
DiskWrongShape == [state |-> "wrong_shape", manifest |-> EmptyManifest]

\* every loaded manifest taken as usable
ManifestUsableAlways(disk) == TRUE

\* what load_manifest returned can be used as the manifest dictionary:
\* json.load of a list is returned as it is (line 203), and main calls
\* manifest.get on it (line 635)
ManifestUsable(disk) == disk.state # "wrong_shape"

\* load_manifest: a missing or unparseable file gives the empty manifest
load_manifest(disk) == IF disk.state = "whole" THEN disk.manifest ELSE EmptyManifest

\* cleanup_manifest(manifest, ...): entries whose file is gone are deleted
dd_cleanup_manifest(m, f) ==
    [m EXCEPT !.files =
        [k \in DdKeys |->
            IF m.files[k].present
               /\ ~PathExists(f, PathOf(FALSE, m.files[k].filename))
            THEN NoFile
            ELSE m.files[k]]]

\* check_url_changed that stores the key and always reports a change
check_url_changedAlways(url, m, head) ==
    IF ~head.ok
    THEN [changed |-> TRUE, manifest |-> m]
    ELSE [changed |-> TRUE,
          manifest |-> [m EXCEPT !.meta[url] = HeaderKey(head.etag, head.lm)]]

\* check_url_changed: True when the url is new or its headers changed
check_url_changed(url, m, head) ==
    IF ~head.ok
    THEN [changed |-> TRUE, manifest |-> m]
    ELSE LET header_key == HeaderKey(head.etag, head.lm)
             stored_key == m.meta[url]
         IN  [changed |-> ~(KeyTruthy(stored_key) /\ stored_key = header_key),
              manifest |-> [m EXCEPT !.meta[url] = header_key]]

\* layer 1 of scrape_yearbooks; the flat variant has no header check
HeaderGate(variant, url, m, head) ==
    IF variant = "headers"
    THEN check_url_changed(url, m, head)
    ELSE [changed |-> TRUE, manifest |-> m]

\* the hash layer with the comparison dropped
HashGateNever(m, f, key) == FALSE

\* layer 2 of scrape_yearbooks: the local file's hash equals the stored hash
HashGate(m, f, key) ==
    /\ m.files[key].present
    /\ PathExists(f, PathOf(FALSE, key.filename))
    /\ compute_file_hash(f, key.filename) = m.files[key].hash

DownloadOutcomes ==
    {"ok", "no_response", "declared_too_large", "stream_too_large", "io_error"}

\* the outcomes in which the body exceeds max_size: by its content-length
\* header, or while it is streamed
SizeOutcomes == {"declared_too_large", "stream_too_large"}

\* download_file without the two size checks: the body is written whole
download_fileNoLimit(f, name, content, outcome) ==
    IF outcome \in {"ok", "declared_too_large", "stream_too_large"}
    THEN [ok |-> TRUE, fs |-> [f EXCEPT ![name] = FileEntry(content)]]
    ELSE IF outcome = "no_response"
    THEN [ok |-> FALSE, fs |-> f]
    ELSE [ok |-> FALSE, fs |-> [f EXCEPT ![name] = NoEntry]]

\* download_file: the file system afterwards and the value returned
download_file(f, name, content, outcome) ==
    CASE outcome = "ok" ->
            [ok |-> TRUE, fs |-> [f EXCEPT ![name] = FileEntry(content)]]
      [] outcome \in {"no_response", "declared_too_large"} ->
            [ok |-> FALSE, fs |-> f]
      [] outcome = "interrupted" ->
            [ok |-> FALSE, fs |-> [f EXCEPT ![name] = FileEntry(PartialBytes(content.src))]]
      [] OTHER ->
            [ok |-> FALSE, fs |-> [f EXCEPT ![name] = NoEntry]]

\* one iteration of the loop over links in scrape_yearbooks
ProcessLink(variant, link, m, f, r, head, outcome, now) ==
    LET key == FileKey(Year, link.filename)
        gate == HeaderGate(variant, link.url, m, head)
        m1 == gate.manifest
    IN  IF ~gate.changed
        THEN [outcome |-> "skip_headers", gets |-> 0, manifest |-> m1, fs |-> f]
        ELSE IF HashGate(m1, f, key)
        THEN [outcome |-> "skip_hash", gets |-> 0, manifest |-> m1, fs |-> f]
        ELSE LET d == download_file(f, link.filename, Bytes(link.url, r.n), outcome)
             IN  IF d.ok
                 THEN [outcome |-> "downloaded", gets |-> 1,
                       manifest |-> [m1 EXCEPT !.files[key] =
                           FileRecord(link.url, compute_file_hash(d.fs, link.filename),
                                      Year, link.filename, now)],
                       fs |-> d.fs]
                 ELSE [outcome |-> "failed", gets |-> 1, manifest |-> m1, fs |-> d.fs]

NeverSeen == [seen |-> FALSE, n |-> 0, etag |-> "", lm |-> ""]

SeenAs(r) == [seen |-> TRUE, n |-> r.n, etag |-> r.etag, lm |-> r.lm]

\* what the processing of a link did, for the properties
NoLast == [done |-> FALSE, again |-> FALSE, unchanged |-> FALSE, recorded |-> FALSE,
           onDisk |-> FALSE,
           headOk |-> FALSE, validators |-> FALSE, sameKey |-> FALSE,
           contentNew |-> FALSE, outcome |-> "none", gets |-> 0, entrySame |-> TRUE,
           dl |-> "none"]

\* main, lines 631-634, and scrape_yearbooks up to the loop: the manifest is
\* loaded and cleaned and the yearbooks are discovered
DdStart ==
    /\ dd_pc \in {"idle", "aborted", "killed"}
    /\ dd_run < DdMaxRuns
    /\ dd_run' = dd_run + 1
    /\ \E found \in BOOLEAN :
          dd_pc' = IF ~ManifestUsable(dd_disk) THEN "aborted"
                   ELSE IF found THEN "items" ELSE "save"
    /\ dd_mem' = IF dd_variant = "headers"
                 THEN dd_cleanup_manifest(load_manifest(dd_disk), fs)
                 ELSE load_manifest(dd_disk)
    /\ dd_i' = 1
    /\ dd_last' = [u \in Urls |-> NoLast]
    /\ UNCHANGED <<remote, fs, dd_variant, dd_links, dd_disk, dd_seen>>
    /\ UNCHANGED <<files, lock, rcLocals, crVars, ppVars>>
    /\ UNCHANGED xtVars

\* the loop body for the next link
DdItem ==
    /\ dd_pc = "items"
    /\ \E headOk \in BOOLEAN, outcome \in DownloadOutcomes :
          LET link == dd_links[dd_i]
              u == link.url
              key == FileKey(Year, link.filename)
              head == IF headOk THEN HeadOf(remote[u]) ELSE HeadFailed
              res == ProcessLink(dd_variant, link, dd_mem, fs, remote[u], head,
                                 outcome, dd_run)
          IN  /\ dd_mem' = res.manifest
              /\ fs' = res.fs
              /\ dd_seen' = [dd_seen EXCEPT ![u] = SeenAs(remote[u])]
              /\ dd_last' = [dd_last EXCEPT ![u] =
                    [done |-> TRUE,
                     again |-> dd_seen[u].seen,
                     unchanged |-> dd_seen[u] = SeenAs(remote[u]),
                     recorded |-> dd_mem.files[key].present /\ dd_mem.files[key].url = u,
                     onDisk |-> PathExists(fs, PathOf(FALSE, link.filename)),
                     headOk |-> head.ok,
                     validators |-> head.ok /\ (head.etag # "" \/ head.lm # ""),
                     sameKey |-> /\ head.ok
                                 /\ dd_mem.meta[u] = HeaderKey(head.etag, head.lm),
                     contentNew |-> dd_mem.files[key].hash
                                        # [sha256 |-> {Bytes(u, remote[u].n)}],
                     outcome |-> res.outcome,
                     gets |-> res.gets,
                     entrySame |-> res.manifest.files[key] = dd_mem.files[key],
                     dl |-> IF res.gets = 1 THEN outcome ELSE "none"]]
    /\ dd_i' = dd_i + 1
    /\ dd_pc' = IF dd_i = Len(dd_links) THEN "save" ELSE "items"
    /\ UNCHANGED <<remote, dd_variant, dd_links, dd_disk, dd_run>>
    /\ UNCHANGED <<files, lock, rcLocals, crVars, ppVars>>
    /\ UNCHANGED xtVars

\* save_manifest: open(manifest_path, "w")
DdSaveOpen ==
    /\ dd_pc = "save"
    /\ dd_disk' = DiskPartial
    /\ dd_pc' = "dump"
    /\ dd_last' = [u \in Urls |-> NoLast]
    /\ UNCHANGED <<remote, fs, dd_variant, dd_links, dd_mem, dd_i, dd_run, dd_seen>>
    /\ UNCHANGED <<files, lock, rcLocals, crVars, ppVars>>
    /\ UNCHANGED xtVars

\* save_manifest: json.dump and close; main returns 0
DdSaveDump ==
    /\ dd_pc = "dump"
    /\ dd_disk' = DiskWhole(dd_mem)
    /\ dd_pc' = "idle"
    /\ UNCHANGED <<remote, fs, dd_variant, dd_links, dd_mem, dd_i, dd_run, dd_seen, dd_last>>
    /\ UNCHANGED <<files, lock, rcLocals, crVars, ppVars>>
    /\ UNCHANGED xtVars

\* the process is terminated inside save_manifest, after open(..., "w") and
\* before json.dump has written the manifest
DdKill ==
    /\ dd_pc = "dump"
    /\ dd_pc' = "killed"
    /\ UNCHANGED <<remote, fs, dd_variant, dd_links, dd_disk, dd_mem, dd_i, dd_run,
                   dd_seen, dd_last>>
    /\ UNCHANGED <<files, lock, rcLocals, crVars, ppVars>>
    /\ UNCHANGED xtVars

\* the site changes a file, its validators, or both, between two runs
DdRemoteChange ==
    /\ dd_pc = "idle"
    /\ dd_run \in 1..(DdMaxRuns - 1)
    /\ \E u \in ChangingUrls, r \in RemoteStates :
          /\ r # remote[u]
          /\ r.n \in {remote[u].n, remote[u].n + 1}
          /\ r.n <= DdMaxContent
          /\ remote' = [remote EXCEPT ![u] = r]
    /\ UNCHANGED <<fs, dd_variant, dd_links, dd_disk, dd_mem, dd_pc, dd_i, dd_run, dd_seen, dd_last>>
    /\ UNCHANGED <<files, lock, rcLocals, crVars, ppVars>>
    /\ UNCHANGED xtVars

\* a downloaded file is deleted by hand between two runs
DdDeleteFile ==
    /\ dd_pc = "idle"
    /\ dd_run \in 1..(DdMaxRuns - 1)
    /\ \E n \in DdFilenames :
          /\ fs[n].kind # "none"
          /\ fs' = [fs EXCEPT ![n] = NoEntry]
    /\ UNCHANGED <<remote, dd_variant, dd_links, dd_disk, dd_mem, dd_pc, dd_i, dd_run, dd_seen, dd_last>>
    /\ UNCHANGED <<files, lock, rcLocals, crVars, ppVars>>
    /\ UNCHANGED xtVars

(***************************************************************************)
(* The crawler: main of scraping/scrape_yearbook.py, and the operations of *)
(* ManifestState it calls.  ManifestState is modelled from the             *)
(* specification (sections 4.1 to 4.3).                                    *)
(***************************************************************************)
\* MODE = "safe"; ManifestState also takes "overwrite"
Modes == {"safe", "overwrite"}

\* period = str(year)
Period == "2023"

\* the link lists a yearbook page may give to the crawler
CrLinkLists ==
    {<<Link("u1", Name("a", 0, ".pdf"))>>,
     <<Link("u1", Name("b", 0, ".zip"))>>,
     <<Link("u1", Name("a", 0, ".pdf")), Link("u2", Name("a", 0, ".pdf"))>>}

\* the content hash of downloaded bytes
ContentHash(c) == [sha256 |-> {c}]

\* the rows of a key, by position
KeyRows(rows, period, url) ==
    {i \in DOMAIN rows : rows[i].period = period /\ rows[i].url = url}

\* (period, file_url) in state.index
InIndex(rows, period, url) == KeyRows(rows, period, url) # {}

\* state.index[key]: the current record of the key is its latest row
CurrentRow(rows, period, url) ==
    CHOOSE i \in KeyRows(rows, period, url) :
        \A j \in KeyRows(rows, period, url) : j <= i

\* reading the ledger when ManifestState is constructed
LoadLedger(file) == IF file.present /\ file.hdr THEN file.rows ELSE <<>>

\* validators are available when the HEAD request answered with an ETag or
\* a Last-Modified header
ValidatorsAvailable(head) == head.ok /\ (head.etag # "" \/ head.lm # "")

Decision(d, why) == [decision |-> d, reason |-> why]

NoDecision == Decision("none", "")

\* ManifestState.plan: fresh, skip (unchanged-by-headers), version or overwrite
plan(rows, mode, period, url, head) ==
    IF ~InIndex(rows, period, url)
    THEN Decision("fresh", "new")
    ELSE LET cur == rows[CurrentRow(rows, period, url)]
         IN  IF /\ ValidatorsAvailable(head)
                /\ head.etag = cur.etag
                /\ head.lm = cur.last_modified
             THEN Decision("skip", "unchanged-by-headers")
             ELSE IF mode = "safe"
             THEN Decision("version", "changed")
             ELSE Decision("overwrite", "changed")

\* the file name a version is saved under: name.v2.ext
VersionedName(filename, version) == [filename EXCEPT !.ver = version]

\* a new version that takes the number of the record before it
NextVersionSame(previous) == previous

\* the version number of a new row of a key: version = previous + 1
NextVersion(previous) == previous + 1

\* ManifestState.download_and_record: the bytes are fetched and hashed; equal
\* to the current record's hash: nothing is written and None is returned;
\* versioned: a new row with version = previous + 1 saved under a versioned
\* name; otherwise the fixed file name is written and the row of the key is
\* updated in place, or created with version 1
download_and_record(rows, f, period, url, filename, versioned, r, outcome) ==
    LET content == Bytes(url, r.n)
        has == InIndex(rows, period, url)
        at == CurrentRow(rows, period, url)
    IN  IF outcome # "ok"
        THEN [raised |-> TRUE, saved |-> NoPath, rows |-> rows, fs |-> f]
        ELSE IF has /\ rows[at].hash = ContentHash(content)
        THEN [raised |-> FALSE, saved |-> NoPath, rows |-> rows, fs |-> f]
        ELSE IF versioned /\ has
        THEN LET v == NextVersion(rows[at].version)
                 name == VersionedName(filename, v)
                 p == PathOf(FALSE, name)
             IN  [raised |-> FALSE, saved |-> p,
                  rows |-> Append(rows, Row(period, url, name, p,
                                            ContentHash(content), r.etag, r.lm, v)),
                  fs |-> [f EXCEPT ![name] = FileEntry(content)]]
        ELSE LET p == PathOf(FALSE, filename)
                 new == Row(period, url, filename, p, ContentHash(content),
                            r.etag, r.lm, IF has THEN rows[at].version ELSE 1)
             IN  [raised |-> FALSE, saved |-> p,
                  rows |-> IF has THEN [rows EXCEPT ![at] = new]
                                  ELSE Append(rows, new),
                  fs |-> [f EXCEPT ![filename] = FileEntry(content)]]

\* ManifestState.register_existing_file: a row for a file found on disk, its
\* hash computed from the bytes on disk
register_existing_file(rows, f, period, url, path) ==
    Append(rows, Row(period, url, path.name, path,
                     compute_file_hash(f, path.name), "", "", 1))

\* ManifestState.update_saved_path: the current record of the key is
\* redirected
update_saved_path(rows, period, url, path) ==
    [rows EXCEPT ![CurrentRow(rows, period, url)].saved_path = path]

\* the flag with every decision downloaded under a versioned name
VersionedAlways(d) == TRUE

\* the flag never set
VersionedNever(d) == FALSE

\* versioned = (decision["decision"] == "version")
Versioned(d) == d.decision = "version"

\* the skip decision never honoured
IsSkipNever(d) == FALSE

\* decision["decision"] == "skip"
IsSkip(d) == d.decision = "skip"

\* saved_path.suffix.lower() == '.zip'
IsZip(p) == p.name.ext = ".zip"

\* extract_folder = zip_path.parent / zip_path.stem
ExtractFolder(p) == [p EXCEPT !.name.ext = ""]

\* a failed expansion that also deletes the archive
ExtractFailedUnlinks(f, zip_path, folder) ==
    [f EXCEPT ![folder.name] =
                 DirEntry(IF PathIsDir(f, folder) THEN f[folder.name].data ELSE {}),
              ![zip_path.name] = NoEntry]

\* extract_zip_file, lines 85-88 and 105-110: the folder was made when
\* ZipFile or extractall raises; the handlers log and return False
ExtractFailed(f, zip_path, folder) ==
    [f EXCEPT ![folder.name] =
                 DirEntry(IF PathIsDir(f, folder) THEN f[folder.name].data ELSE {})]

\* extract_zip_file with the ledger left as it is
ExtractRedirectNone(rows, period, url, folder) == rows

\* extract_zip_file, lines 94-98: the record of a key in the index is
\* redirected to the resolved folder
ExtractRedirect(rows, period, url, folder) ==
    IF InIndex(rows, period, url)
    THEN update_saved_path(rows, period, url, Resolve(folder))
    ELSE rows

\* the test of line 433 with no file taken as an orphan
IsOrphanNever(rows, f, period, url, expected_path) == FALSE

\* expected_path.exists() and (period, file_url) not in state.index
IsOrphan(rows, f, period, url, expected_path) ==
    PathExists(f, expected_path) /\ ~InIndex(rows, period, url)

\* counts = {"downloaded":0, "versioned":0, "skipped":0, "unchanged":0, "errors":0}
NoCounts ==
    [downloaded |-> 0, versioned |-> 0, skipped |-> 0, unchanged |-> 0, errors |-> 0]

Count(c, what) == [c EXCEPT ![what] = @ + 1]

\* main, lines 433-438: the candidate is counted as downloaded when
\* register_existing_file returned a true value; the if has no else
CountRegistered(c, registered) == IF registered THEN Count(c, "downloaded") ELSE c

\* the ledger file after ManifestState has written its rows
LedgerWritten(rows) == [files EXCEPT !["ledger"] = CsvFile(rows)]

\* the position after the item at cr_i: the next link, or the end of the run
AfterItem == IF cr_i = Len(cr_links) THEN "finish" ELSE "plan"

\* an exception that ends the loop over the links
AfterErrorAbort == "finish"

\* main, lines 465-469: the exception of an item is caught inside the loop,
\* counted and logged, and the loop goes on with the next link
AfterError == AfterItem

\* the exit status of a process and how its discovery of yearbooks went
ExitStatus(code, discovery) == [code |-> code, discovery |-> discovery]

\* no process has ended
NoExit == ExitStatus(-1, "none")

\* discover_yearbooks: it returns yearbooks, raises, or returns none
Discoveries == {"ok", "raised", "empty"}

\* main returns None at lines 389 and 393, and scrape_yearbook.py ends after
\* main(): the exit status of the process is 0
ExitAfterDiscovery(discovery) == 0

\* main, lines 380-393: ManifestState is constructed and the yearbooks are
\* discovered; the run ends there when none is found
CrStart ==
    /\ cr_pc = "idle"
    /\ cr_run < CrMaxRuns
    /\ cr_run' = cr_run + 1
    /\ \E discovery \in Discoveries :
          /\ cr_pc' = IF discovery = "ok" THEN "plan" ELSE "exit"
          /\ cr_rows' = IF discovery = "ok" THEN LoadLedger(files["ledger"]) ELSE <<>>
          /\ cr_exit' = IF discovery = "ok" THEN NoExit
                        ELSE ExitStatus(ExitAfterDiscovery(discovery), discovery)
    /\ counts' = NoCounts
    /\ cr_i' = 1
    /\ cr_plan' = NoDecision
    /\ cr_head' = HeadFailed
    /\ cr_versioned' = FALSE
    /\ cr_saved' = NoPath
    /\ UNCHANGED <<fs, files, lock, remote, cr_mode, cr_links>>
    /\ UNCHANGED <<rcLocals, ddLocals, ppVars>>
    /\ UNCHANGED xtVars

\* main, lines 415-438: plan, the skip branch, and the registration of a
\* file that is on disk but not in the ledger
CrPlan ==
    /\ cr_pc = "plan"
    /\ \E headOk \in BOOLEAN :
          LET link == cr_links[cr_i]
              head == IF headOk THEN HeadOf(remote[link.url]) ELSE HeadFailed
              d == plan(cr_rows, cr_mode, Period, link.url, head)
              expected_path == PathOf(FALSE, link.filename)
          IN  /\ cr_plan' = d
              /\ cr_head' = head
              /\ IF IsSkip(d)
                 THEN /\ counts' = Count(counts, "skipped")
                      /\ cr_i' = cr_i + 1
                      /\ cr_pc' = AfterItem
                      /\ UNCHANGED <<cr_rows, files, cr_versioned>>
                 ELSE IF IsOrphan(cr_rows, fs, Period, link.url, expected_path)
                 THEN /\ \E registered \in BOOLEAN :
                            /\ cr_rows' = IF registered
                                          THEN register_existing_file(
                                                   cr_rows, fs, Period, link.url,
                                                   expected_path)
                                          ELSE cr_rows
                            /\ files' = IF registered THEN LedgerWritten(cr_rows')
                                        ELSE files
                            /\ counts' = CountRegistered(counts, registered)
                      /\ cr_i' = cr_i + 1
                      /\ cr_pc' = AfterItem
                      /\ UNCHANGED cr_versioned
                 ELSE /\ cr_versioned' = Versioned(d)
                      /\ cr_pc' = "download"
                      /\ UNCHANGED <<cr_rows, files, counts, cr_i>>
    /\ cr_saved' = NoPath
    /\ UNCHANGED <<fs, lock, remote, cr_mode, cr_links, cr_run>>
    /\ UNCHANGED cr_exit
    /\ UNCHANGED <<rcLocals, ddLocals, ppVars>>
    /\ UNCHANGED xtVars

\* main, lines 440-463: download_and_record and the counting of its result
CrDownload ==
    /\ cr_pc = "download"
    /\ \E outcome \in {"ok", "error"} :
          LET link == cr_links[cr_i]
              res == download_and_record(cr_rows, fs, Period, link.url,
                                         link.filename, cr_versioned,
                                         remote[link.url], outcome)
          IN  /\ cr_rows' = res.rows
              /\ fs' = res.fs
              /\ files' = IF res.rows = cr_rows THEN files
                          ELSE LedgerWritten(res.rows)
              /\ cr_saved' = res.saved
              /\ counts' = IF res.raised THEN Count(counts, "errors")
                           ELSE IF res.saved = NoPath THEN Count(counts, "unchanged")
                           ELSE IF cr_versioned THEN Count(counts, "versioned")
                           ELSE Count(counts, "downloaded")
              /\ IF res.raised
                 THEN cr_pc' = AfterError /\ cr_i' = cr_i + 1
                 ELSE IF res.saved # NoPath /\ IsZip(res.saved)
                 THEN cr_pc' = "extract" /\ cr_i' = cr_i
                 ELSE cr_pc' = AfterItem /\ cr_i' = cr_i + 1
    /\ UNCHANGED <<lock, remote, cr_mode, cr_links, cr_run, cr_plan, cr_head,
                   cr_versioned>>
    /\ UNCHANGED cr_exit
    /\ UNCHANGED <<rcLocals, ddLocals, ppVars>>
    /\ UNCHANGED xtVars

\* extract_zip_file, lines 81-98: the folder is made, the archive expanded
\* into it and the ledger redirected to the folder; a bad archive ends the
\* function after the folder was made
CrExtract ==
    /\ cr_pc = "extract"
    /\ \E good \in BOOLEAN :
          LET link == cr_links[cr_i]
              folder == ExtractFolder(cr_saved)
              before == IF PathIsDir(fs, folder) THEN fs[folder.name].data ELSE {}
          IN  IF good
              THEN /\ fs' = [fs EXCEPT ![folder.name] =
                                DirEntry(before \cup fs[cr_saved.name].data)]
                   /\ cr_rows' = ExtractRedirect(cr_rows, Period, link.url, folder)
                   /\ files' = IF InIndex(cr_rows, Period, link.url)
                               THEN LedgerWritten(cr_rows')
                               ELSE files
                   /\ cr_pc' = "unlink"
                   /\ cr_i' = cr_i
              ELSE /\ fs' = ExtractFailed(fs, cr_saved, folder)
                   /\ cr_pc' = AfterItem
                   /\ cr_i' = cr_i + 1
                   /\ UNCHANGED <<cr_rows, files>>
    /\ UNCHANGED <<lock, remote, cr_mode, cr_links, cr_run, cr_plan, cr_head,
                   cr_versioned, cr_saved, counts>>
    /\ UNCHANGED cr_exit
    /\ UNCHANGED <<rcLocals, ddLocals, ppVars>>
    /\ UNCHANGED xtVars

\* extract_zip_file, lines 100-103: zip_path.unlink()
CrUnlink ==
    /\ cr_pc = "unlink"
    /\ fs' = [fs EXCEPT ![cr_saved.name] = NoEntry]
    /\ cr_pc' = AfterItem
    /\ cr_i' = cr_i + 1
    /\ UNCHANGED <<files, lock, remote, cr_mode, cr_links, cr_run, cr_rows,
                   cr_plan, cr_head, cr_versioned, cr_saved, counts>>
    /\ UNCHANGED cr_exit
    /\ UNCHANGED <<rcLocals, ddLocals, ppVars>>
    /\ UNCHANGED xtVars

\* main, lines 472-485: the summary, reorganize_1996_1999_data and
\* cleanup_tmp_folders, which leave the files of other years alone; the
\* process ends and its variables with it
CrFinish ==
    /\ cr_pc = "finish"
    /\ cr_pc' = "exit"
    /\ cr_exit' = ExitStatus(0, "ok")
    /\ cr_rows' = <<>>
    /\ cr_i' = 1
    /\ cr_plan' = NoDecision
    /\ cr_head' = HeadFailed
    /\ cr_versioned' = FALSE
    /\ cr_saved' = NoPath
    /\ counts' = NoCounts
    /\ UNCHANGED <<fs, files, lock, remote, cr_mode, cr_links, cr_run>>
    /\ UNCHANGED <<rcLocals, ddLocals, ppVars>>
    /\ UNCHANGED xtVars

\* the process has ended and its exit status has been collected
CrExit ==
    /\ cr_pc = "exit"
    /\ cr_pc' = "idle"
    /\ cr_exit' = NoExit
    /\ UNCHANGED <<fs, files, lock, remote, cr_mode, cr_links, cr_rows, cr_i, cr_run,
                   cr_plan, cr_head, cr_versioned, cr_saved, counts>>
    /\ UNCHANGED <<rcLocals, ddLocals, ppVars>>
    /\ UNCHANGED xtVars

\* the site changes a file, its validators, or both, between two runs
CrRemoteChange ==
    /\ cr_pc = "idle"
    /\ cr_run \in 1..(CrMaxRuns - 1)
    /\ \E u \in ChangingUrls, r \in RemoteStates :
          /\ r # remote[u]
          /\ r.n \in {remote[u].n, remote[u].n + 1}
          /\ remote' = [remote EXCEPT ![u] = r]
    /\ UNCHANGED <<fs, files, lock, cr_mode, cr_links, cr_run, cr_rows, cr_pc,
                   cr_i, cr_plan, cr_head, cr_versioned, cr_saved, counts>>
    /\ UNCHANGED cr_exit
    /\ UNCHANGED <<rcLocals, ddLocals, ppVars>>
    /\ UNCHANGED xtVars

\* a saved file or folder is deleted by hand between two runs
CrDeleteFile ==
    /\ cr_pc = "idle"
    /\ cr_run \in 1..(CrMaxRuns - 1)
    /\ \E i \in DOMAIN files["ledger"].rows :
          LET p == files["ledger"].rows[i].saved_path
          IN  /\ PathExists(fs, p)
              /\ fs' = [fs EXCEPT ![p.name] = NoEntry]
    /\ UNCHANGED <<files, lock, remote, cr_mode, cr_links, cr_run, cr_rows, cr_pc,
                   cr_i, cr_plan, cr_head, cr_versioned, cr_saved, counts>>
    /\ UNCHANGED cr_exit
    /\ UNCHANGED <<rcLocals, ddLocals, ppVars>>
    /\ UNCHANGED xtVars

\* run_yearbook.py: crawl_yearbook.py runs to its end before the crawler
CrReconcile ==
    /\ cr_pc = "idle"
    /\ cr_run \in 1..(CrMaxRuns - 1)
    /\ files["ledger"].present
    /\ LET res == FilterRows(fs, files["ledger"].rows)
       IN  /\ MustRewrite(res.removed)
           /\ files' = [files EXCEPT !["ledger"] = CsvFile(res.valid)]
    /\ UNCHANGED <<fs, lock, remote, cr_mode, cr_links, cr_run, cr_rows, cr_pc,
                   cr_i, cr_plan, cr_head, cr_versioned, cr_saved, counts>>
    /\ UNCHANGED cr_exit
    /\ UNCHANGED <<rcLocals, ddLocals, ppVars>>
    /\ UNCHANGED xtVars

\* the crawler is not part of the behaviour
CrUnused ==
    /\ cr_mode = "safe"
    /\ cr_links = <<>>
    /\ cr_rows = <<>>
    /\ cr_pc = "unused"
    /\ cr_i = 1
    /\ cr_run = 0
    /\ cr_plan = NoDecision
    /\ cr_head = HeadFailed
    /\ cr_versioned = FALSE
    /\ cr_saved = NoPath
    /\ counts = NoCounts
    /\ cr_exit = NoExit

(***************************************************************************)
(* Two runs of the direct-download scraper at the same time on the same    *)
(* output folder (main of yb_direct_download_scraper.py, twice).           *)
(***************************************************************************)
Procs == {"p1", "p2"}

\* the download outcomes followed while two processes run
\* "interrupted": the process is killed while the body is being written
PpOutcomes == {"ok", "no_response", "io_error", "interrupted"}

\* main, lines 631-634, and scrape_yearbooks up to the loop
PpStart(p) ==
    /\ pp_pc[p] = "idle"
    /\ pp_mem' = [pp_mem EXCEPT ![p] =
                     IF dd_variant = "headers"
                     THEN dd_cleanup_manifest(load_manifest(dd_disk), fs)
                     ELSE load_manifest(dd_disk)]
    /\ pp_pc' = [pp_pc EXCEPT ![p] = "items"]
    /\ UNCHANGED <<fs, files, lock, rcLocals, ddVars, crVars, pp_i>>
    /\ UNCHANGED xtVars

\* the loop body for the next link of process p
PpItem(p) ==
    /\ pp_pc[p] = "items"
    /\ \E headOk \in BOOLEAN, outcome \in PpOutcomes :
          LET link == dd_links[pp_i[p]]
              head == IF headOk THEN HeadOf(remote[link.url]) ELSE HeadFailed
              res == ProcessLink(dd_variant, link, pp_mem[p], fs, remote[link.url],
                                 head, outcome, 1)
          IN  /\ pp_mem' = [pp_mem EXCEPT ![p] = res.manifest]
              /\ fs' = res.fs
              /\ pp_pc' = [pp_pc EXCEPT ![p] =
                    IF outcome = "interrupted" /\ res.gets = 1 THEN "killed"
                    ELSE IF pp_i[p] = Len(dd_links) THEN "save" ELSE "items"]
    /\ pp_i' = [pp_i EXCEPT ![p] = @ + 1]
    /\ UNCHANGED <<files, lock, rcLocals, ddVars, crVars>>
    /\ UNCHANGED xtVars

\* save_manifest: open(manifest_path, "w") truncates the file; no lock is
\* taken
PpSaveOpen(p) ==
    /\ pp_pc[p] = "save"
    /\ dd_disk' = DiskPartial
    /\ pp_pc' = [pp_pc EXCEPT ![p] = "dump"]
    /\ UNCHANGED <<fs, files, lock, rcLocals, crVars, pp_mem, pp_i>>
    /\ UNCHANGED <<remote, dd_variant, dd_links, dd_mem, dd_pc, dd_i, dd_run,
                   dd_seen, dd_last>>
    /\ UNCHANGED xtVars

\* save_manifest: json.dump writes from the start of the file; when another
\* process wrote the file after this one truncated it, what is left is this
\* manifest, or this manifest followed by the rest of the longer one, which
\* does not parse
PpSaveDump(p) ==
    /\ pp_pc[p] = "dump"
    /\ \E clean \in BOOLEAN :
          dd_disk' = IF clean \/ dd_disk = DiskPartial
                     THEN DiskWhole(pp_mem[p])
                     ELSE DiskPartial
    /\ pp_pc' = [pp_pc EXCEPT ![p] = "done"]
    /\ UNCHANGED <<fs, files, lock, rcLocals, crVars, pp_mem, pp_i>>
    /\ UNCHANGED <<remote, dd_variant, dd_links, dd_mem, dd_pc, dd_i, dd_run,
                   dd_seen, dd_last>>
    /\ UNCHANGED xtVars

(***************************************************************************)
(* The retrying requests: retrying_get of scraping/scrape_yearbook.py and  *)
(* make_request_with_retry of yb_direct_download_scraper.py.               *)
(***************************************************************************)
\* MAX_RETRIES = 3
MAX_RETRIES == 3

\* RETRY_BACKOFF_FACTOR = 2
RETRY_BACKOFF_FACTOR == 2

\* RETRY_DELAY_INITIAL = 1
RETRY_DELAY_INITIAL == 1

\* for i in range(4)
GetAttempts == 4

RetryFns == {"retrying_get", "make_request_with_retry"}

\* what one attempt can end in: a response with a 2xx status, a timeout, a
\* connection error, or a response with status 429, 503 or 404
AttemptOutcomes == {"ok", "timeout", "connection", "http429", "http503", "http404"}

\* the failures that a later attempt may cure
Transient(o) == o \in {"timeout", "connection", "http429", "http503"}

\* the attempts a call makes at most
AttemptLimit(fn) == IF fn = "retrying_get" THEN GetAttempts ELSE MAX_RETRIES

\* whether the attempt raises into the handler that retries: retrying_get
\* raises HTTPError itself for 429 and 5xx, raise_for_status raises it for
\* every other 4xx, and 'except Exception' catches them all;
\* make_request_with_retry calls raise_for_status and catches Timeout,
\* HTTPError, ConnectionError and RequestException alike
AttemptRaises(fn, o) == o # "ok"

RECURSIVE Power(_, _)
Power(b, e) == IF e = 0 THEN 1 ELSE b * Power(b, e - 1)

\* a backoff that stays at its first delay
BackoffDelayFlat(fn, backoff, attempt) == RETRY_DELAY_INITIAL

\* the delay slept after the attempt-th failure: retrying_get sleeps its
\* backoff variable; make_request_with_retry computes
\* RETRY_DELAY_INITIAL * (RETRY_BACKOFF_FACTOR ** (attempt - 1))
BackoffDelay(fn, backoff, attempt) ==
    IF fn = "retrying_get" THEN backoff
    ELSE RETRY_DELAY_INITIAL * Power(RETRY_BACKOFF_FACTOR, attempt - 1)

\* the function is called: backoff = 1.0, attempt = 0
RtCall ==
    /\ rt_pc \in {"idle", "returned", "returned_none", "raised"}
    /\ \E fn \in RetryFns : rt_fn' = fn
    /\ rt_pc' = "request"
    /\ rt_hist' = <<>>
    /\ rt_sleeps' = <<>>
    /\ rt_backoff' = 1
    /\ UNCHANGED <<rcVars, ddVars, crVars, ppVars>>
    /\ UNCHANGED plVars

\* one pass of the loop: the request is made; a response is returned, or the
\* exception is handled: the last attempt ends the call, an earlier one goes
\* to the backoff
RtAttempt ==
    /\ rt_pc = "request"
    /\ \E o \in AttemptOutcomes :
          /\ rt_hist' = Append(rt_hist, o)
          /\ rt_pc' = IF ~AttemptRaises(rt_fn, o) THEN "returned"
                      ELSE IF Len(rt_hist) + 1 < AttemptLimit(rt_fn) THEN "sleep"
                      ELSE IF rt_fn = "retrying_get" THEN "raised"
                      ELSE "returned_none"
    /\ UNCHANGED <<rt_fn, rt_sleeps, rt_backoff>>
    /\ UNCHANGED <<rcVars, ddVars, crVars, ppVars>>
    /\ UNCHANGED plVars

\* time.sleep of the backoff delay; retrying_get doubles its backoff
RtSleep ==
    /\ rt_pc = "sleep"
    /\ rt_sleeps' = Append(rt_sleeps, BackoffDelay(rt_fn, rt_backoff, Len(rt_hist)))
    /\ rt_backoff' = IF rt_fn = "retrying_get" THEN rt_backoff * 2 ELSE rt_backoff
    /\ rt_pc' = "request"
    /\ UNCHANGED <<rt_fn, rt_hist>>
    /\ UNCHANGED <<rcVars, ddVars, crVars, ppVars>>
    /\ UNCHANGED plVars

\* a value returned by a function: None, or a number
ReturnedNone == [none |-> TRUE, value |-> 0]

ReturnedNumber(n) == [none |-> FALSE, value |-> n]

\* what cleanup_manifest of crawl_yearbook.py returns: its only return
\* statement is the bare 'return' of line 21, and the function body ends
\* after the finally clause, so the caller gets None whatever was removed
cleanup_manifest_returns(removed) == ReturnedNone

(***************************************************************************)
(* The pipeline of scraping/run_yearbook.py: crawl_yearbook.py (the        *)
(* reconciler), then scrape_yearbook.py (the crawler, with the             *)
(* reorganization of the 1996-1999 folder and the removal of the staging   *)
(* folders at its end), run again and again on a site that does not        *)
(* change.  A place is a file name in a year folder.                       *)
(***************************************************************************)
\* how many times the pipeline is started
PlMaxCycles == 2

\* MODE = "safe"
MODE == "safe"

\* combined_folder = base / "1996": the yearbook 1996-1999 is discovered
\* with year 1996
CombinedYear == 1996

\* the years a file name of the combined folder may carry
NamedYears == {1996, 1997}

\* the year folders
PlFolders == NamedYears \cup {Year}

\* period = str(year)
PeriodOf(year) == IF year = Year THEN Period ELSE "1996"

\* the file names the yearbook page may list, by stem
PlStems == {"yearbook_1996", "yearbook_1997", "statyearbk97_0"}

\* the suffix _1, _2, ... a moved item gets when its name is taken: one more
\* per cycle at most
PlMaxDup == PlMaxCycles

\* ydir / filename, target_folder / item_path.name
InFolder(dir, name) ==
    [stem |-> name.stem, ver |-> name.ver, ext |-> name.ext, dir |-> dir, dup |-> 0]


\* extract_year_from_name: 19(96|97|98|99)\b, then \b(96|97|98|99)\b; 0
\* stands for None.  "yearbook_1997.pdf" gives 1997; in "statyearbk97_0.pdf"
\* the digits stand between word characters and nothing matches; in
\* "yearbook_1997_1.pdf" the year is followed by a word character
extract_year_from_name(name) ==
    IF name.dup > 0 THEN 0
    ELSE IF name.stem = "yearbook_1996" THEN 1996
    ELSE IF name.stem = "yearbook_1997" THEN 1997
    ELSE 0

\* the places of the pipeline: where the crawler saves and extracts, and
\* where the items of the combined folder may be renamed to
PlPlaces ==
    LET saved == {[stem |-> s, ver |-> 0, ext |-> e, dir |-> d, dup |-> 0] :
                     s \in PlStems, e \in {".pdf", ".zip", ""},
                     d \in {CombinedYear, Year}}
    IN  saved \cup
        {[pl EXCEPT !.dir = extract_year_from_name(pl), !.dup = k] :
            pl \in {q \in saved : q.dir = CombinedYear
                                    /\ extract_year_from_name(q) # 0},
            k \in 0..PlMaxDup}

\* the items of the combined folder that are renamed: files and directories
\* whose name carries a year, but for a file that is in its folder already
\* (target_path.samefile(item_path)); a directory is not compared
ItemsToMove(f) ==
    {pl \in DOMAIN f :
        /\ pl.dir = CombinedYear
        /\ f[pl].kind # "none"
        /\ extract_year_from_name(pl) # 0
        /\ ~(f[pl].kind = "file" /\ extract_year_from_name(pl) = pl.dir)}

RECURSIVE FreeTarget(_, _, _)
\* the first of name, name_1, name_2, ... that does not exist
FreeTarget(f, target, counter) ==
    LET t == [target EXCEPT !.dup = counter]
    IN  IF t \in DOMAIN f /\ f[t].kind # "none"
        THEN FreeTarget(f, target, counter + 1)
        ELSE t

\* where an item is renamed to
TargetPath(f, pl) == FreeTarget(f, [pl EXCEPT !.dir = extract_year_from_name(pl)], 0)

\* reorganize_1996_1999_data: every item to move is renamed; the names of
\* two items differ, so the order of the renames is immaterial.  The files
\* inside an extracted folder move with the folder
reorganize_1996_1999_data(f) ==
    [q \in DOMAIN f |->
        IF \E pl \in ItemsToMove(f) : TargetPath(f, pl) = q
        THEN f[CHOOSE pl \in ItemsToMove(f) : TargetPath(f, pl) = q]
        ELSE IF q \in ItemsToMove(f) THEN NoEntry
        ELSE f[q]]

\* subprocess.check_call: CalledProcessError is raised for a status that is
\* not zero
check_callNever(status) == FALSE

check_call(status) == status # 0

\* the exit statuses of the reconciler, the crawler and run_yearbook.py; -1:
\* not ended
Statuses(reconcile, crawl, pipeline) ==
    [reconcile |-> reconcile, crawl |-> crawl, pipeline |-> pipeline]

\* how the crawler starts: the discovery of main (lines 385-393), or an
\* exception of the lines outside every try block
PlStarts == Discoveries \cup {"uncaught"}

\* what get_download_links gives for a yearbook: links, none, or an
\* exception
PageResults == {"links", "empty", "raised"}

\* a yearbook without links that ends the loop over the yearbooks
AfterYearbookStop(rest) == "reorganize"

\* the position after a yearbook: 'continue' goes to the next yearbook, and
\* the end of the loop to the summary and the reorganization
AfterYearbook(rest) == IF rest = <<>> THEN "reorganize" ELSE "links"

\* the variables the pipeline leaves alone
plOthers == <<lock, rcLocals, ddLocals, ppVars, rtVars, remote, cr_mode, cr_links,
              cr_pc, cr_i, cr_run, cr_plan, cr_head, cr_versioned, cr_saved, cr_exit,
              pl_site>>

\* run_yearbook.py is started
PlStart ==
    /\ pl_pc = "idle"
    /\ pl_cycle < PlMaxCycles
    /\ pl_cycle' = pl_cycle + 1
    /\ pl_pc' = "reconcile"
    /\ pl_status' = Statuses(-1, -1, -1)
    /\ UNCHANGED <<fs, files, cr_rows, counts, pl_year, pl_rest, pl_errors, pl_i,
                   pl_tmp, pl_fetched>>
    /\ UNCHANGED pl_page
    /\ UNCHANGED plOthers

\* run_yearbook.py, lines 11-15: crawl_yearbook.py runs to its end; a status
\* that is not zero ends the pipeline with status 1
PlReconcile ==
    /\ pl_pc = "reconcile"
    /\ \E status \in {0, 1} :
          LET res == FilterRows(fs, files["ledger"].rows)
          IN  /\ files' = IF status = 0 /\ files["ledger"].present
                             /\ MustRewrite(res.removed)
                          THEN [files EXCEPT !["ledger"] = CsvFile(res.valid)]
                          ELSE files
              /\ pl_status' = [pl_status EXCEPT
                                  !.reconcile = status,
                                  !.pipeline = IF check_call(status) THEN 1 ELSE @]
              /\ pl_pc' = IF check_call(status) THEN "exit" ELSE "crawl"
    /\ UNCHANGED <<fs, cr_rows, counts, pl_year, pl_rest, pl_errors, pl_cycle, pl_i,
                   pl_tmp, pl_fetched>>
    /\ UNCHANGED pl_page
    /\ UNCHANGED plOthers

\* run_yearbook.py, lines 17-21, and main of scrape_yearbook.py, lines
\* 380-397: the crawler is started; it ends at once with status 0 when the
\* discovery fails, and with status 1 on an exception nothing catches
PlCrawlStart ==
    /\ pl_pc = "crawl"
    /\ \E start \in PlStarts :
          /\ pl_pc' = IF start = "ok" THEN "links" ELSE "exit"
          /\ cr_rows' = IF start = "uncaught" THEN <<>> ELSE LoadLedger(files["ledger"])
          /\ pl_errors' = IF start \in {"raised", "empty"} THEN 1 ELSE 0
          /\ pl_status' =
                IF start = "uncaught"
                THEN [pl_status EXCEPT !.crawl = 1,
                                       !.pipeline = IF check_call(1) THEN 1 ELSE 0]
                ELSE IF start \in {"raised", "empty"}
                THEN [pl_status EXCEPT
                         !.crawl = ExitAfterDiscovery(start),
                         !.pipeline = IF check_call(ExitAfterDiscovery(start))
                                      THEN 1 ELSE 0]
                ELSE pl_status
    /\ counts' = NoCounts
    /\ pl_year' = Head(pl_site)
    /\ pl_rest' = Tail(pl_site)
    /\ pl_i' = 1
    /\ UNCHANGED <<fs, files, pl_cycle, pl_tmp, pl_fetched>>
    /\ pl_page' = "none"
    /\ UNCHANGED plOthers

\* main, lines 395-412: the links of the yearbook are fetched; an exception
\* is logged as an error and the loop continues with the next yearbook, and
\* so it does, without an error, when there is no link
PlLinks ==
    /\ pl_pc = "links"
    /\ \E page \in PageResults :
          /\ pl_page' = page
          /\ pl_errors' = IF page = "raised" THEN pl_errors + 1 ELSE pl_errors
          /\ IF page = "links"
             THEN /\ pl_pc' = "item"
                  /\ UNCHANGED <<pl_year, pl_rest>>
             ELSE /\ pl_pc' = AfterYearbook(pl_rest)
                  /\ pl_year' = IF pl_rest = <<>> THEN pl_year ELSE Head(pl_rest)
                  /\ pl_rest' = IF pl_rest = <<>> THEN pl_rest ELSE Tail(pl_rest)
    /\ pl_i' = 1
    /\ UNCHANGED <<fs, files, cr_rows, counts, pl_cycle, pl_status, pl_tmp, pl_fetched>>
    /\ UNCHANGED plOthers

\* main of scrape_yearbook.py, lines 415-468: one pass of the loop over the
\* links, from plan to the extraction of an archive
PlItem ==
    /\ pl_pc = "item"
    /\ \E headOk \in BOOLEAN, outcome \in {"ok", "error"}, good \in BOOLEAN :
          LET link == cr_links[pl_i]
              period == PeriodOf(pl_year)
              filename == InFolder(pl_year, link.filename)
              expected_path == PathOf(FALSE, filename)
              head == IF headOk THEN HeadOf(remote[link.url]) ELSE HeadFailed
              d == plan(cr_rows, MODE, period, link.url, head)
              res == download_and_record(cr_rows, fs, period, link.url, filename,
                                         Versioned(d), remote[link.url], outcome)
              saved == ~res.raised /\ res.saved # NoPath
              folder == ExtractFolder(res.saved)
              before == IF PathIsDir(res.fs, folder)
                        THEN res.fs[folder.name].data ELSE {}
          IN  /\ IF IsSkip(d)
                 THEN /\ counts' = Count(counts, "skipped")
                      /\ UNCHANGED <<cr_rows, fs, pl_tmp, pl_fetched>>
                 ELSE IF IsOrphan(cr_rows, fs, period, link.url, expected_path)
                 THEN /\ \E registered \in BOOLEAN :
                            /\ cr_rows' = IF registered
                                          THEN register_existing_file(
                                                   cr_rows, fs, period, link.url,
                                                   expected_path)
                                          ELSE cr_rows
                            /\ counts' = CountRegistered(counts, registered)
                      /\ UNCHANGED <<fs, pl_tmp, pl_fetched>>
                 ELSE /\ pl_tmp' = pl_tmp \cup {pl_year}
                      /\ pl_fetched' =
                            IF saved /\ pl_fetched[<<pl_year, link.url>>] = 0
                            THEN [pl_fetched EXCEPT ![<<pl_year, link.url>>] = pl_cycle]
                            ELSE pl_fetched
                      /\ counts' = IF res.raised THEN Count(counts, "errors")
                                   ELSE IF res.saved = NoPath
                                   THEN Count(counts, "unchanged")
                                   ELSE IF Versioned(d) THEN Count(counts, "versioned")
                                   ELSE Count(counts, "downloaded")
                      /\ IF ~(saved /\ IsZip(res.saved))
                         THEN cr_rows' = res.rows /\ fs' = res.fs
                         ELSE IF good
                         THEN /\ fs' = [res.fs EXCEPT
                                           ![folder.name] =
                                               DirEntry(before \cup
                                                        res.fs[res.saved.name].data),
                                           ![res.saved.name] = NoEntry]
                              /\ cr_rows' = ExtractRedirect(res.rows, period,
                                                            link.url, folder)
                         ELSE /\ fs' = ExtractFailed(res.fs, res.saved, folder)
                              /\ cr_rows' = res.rows
              /\ files' = IF cr_rows' = cr_rows THEN files ELSE LedgerWritten(cr_rows')
    /\ IF pl_i < Len(cr_links)
       THEN /\ pl_i' = pl_i + 1
            /\ pl_pc' = "item"
            /\ UNCHANGED <<pl_year, pl_rest>>
       ELSE /\ pl_i' = 1
            /\ pl_pc' = AfterYearbook(pl_rest)
            /\ pl_year' = IF pl_rest = <<>> THEN pl_year ELSE Head(pl_rest)
            /\ pl_rest' = IF pl_rest = <<>> THEN pl_rest ELSE Tail(pl_rest)
    /\ UNCHANGED <<pl_errors, pl_cycle, pl_status>>
    /\ UNCHANGED pl_page
    /\ UNCHANGED plOthers

\* main, lines 479-481: reorganize_1996_1999_data(OUTDIR); it returns at
\* once when there is no 1996 folder, and at its end removes the empty
\* folders of the combined folder
PlReorganize ==
    /\ pl_pc = "reorganize"
    /\ fs' = reorganize_1996_1999_data(fs)
    /\ pl_tmp' = pl_tmp \ {CombinedYear}
    /\ pl_pc' = "cleanup_tmp"
    /\ UNCHANGED <<files, cr_rows, counts, pl_year, pl_rest, pl_errors, pl_cycle, pl_i,
                   pl_status, pl_fetched>>
    /\ UNCHANGED pl_page
    /\ UNCHANGED plOthers

\* main, lines 483-485: cleanup_tmp_folders(OUTDIR); the crawler ends with
\* status 0, and run_yearbook.py after it
PlCleanupTmp ==
    /\ pl_pc = "cleanup_tmp"
    /\ pl_tmp' = {}
    /\ pl_status' = [pl_status EXCEPT !.crawl = 0,
                                      !.pipeline = IF check_call(0) THEN 1 ELSE 0]
    /\ pl_pc' = "exit"
    /\ UNCHANGED <<fs, files, cr_rows, counts, pl_year, pl_rest, pl_errors, pl_cycle,
                   pl_i, pl_fetched>>
    /\ UNCHANGED pl_page
    /\ UNCHANGED plOthers

\* the pipeline has ended, and its processes with it
PlExit ==
    /\ pl_pc = "exit"
    /\ pl_pc' = "idle"
    /\ cr_rows' = <<>>
    /\ counts' = NoCounts
    /\ pl_year' = Head(pl_site)
    /\ pl_rest' = <<>>
    /\ pl_errors' = 0
    /\ UNCHANGED <<fs, files, pl_cycle, pl_i, pl_status, pl_tmp, pl_fetched>>
    /\ pl_page' = "none"
    /\ UNCHANGED plOthers

\* the pipeline is not part of the behaviour
PlUnused ==
    /\ pl_pc = "unused"
    /\ pl_site = <<Year>>
    /\ pl_year = Year
    /\ pl_rest = <<>>
    /\ pl_errors = 0
    /\ pl_page = "none"
    /\ pl_cycle = 0
    /\ pl_i = 1
    /\ pl_status = Statuses(-1, -1, -1)
    /\ pl_tmp = {}
    /\ pl_fetched = [k \in PlFolders \X Urls |-> 0]

\* no retrying request is part of the behaviour
RtUnused ==
    /\ rt_fn = "retrying_get"
    /\ rt_pc = "unused"
    /\ rt_hist = <<>>
    /\ rt_sleeps = <<>>
    /\ rt_backoff = 1

\* the parts added to the scrapers' own are not part of the behaviour
XtUnused == RtUnused /\ PlUnused

\* no second process is part of the behaviour
PpUnused ==
    /\ pp_pc = [p \in Procs |-> "unused"]
    /\ pp_mem = [p \in Procs |-> EmptyManifest]
    /\ pp_i = [p \in Procs |-> 1]

\* the direct-download scraper is not part of the behaviour
DdUnused ==
    /\ remote = [u \in Urls |-> RemoteState(1, [etag |-> "", lm |-> ""])]
    /\ dd_variant = "headers"
    /\ dd_links = <<>>
    /\ dd_disk = DiskAbsent
    /\ dd_mem = EmptyManifest
    /\ dd_pc = "unused"
    /\ dd_i = 1
    /\ dd_run = 0
    /\ dd_seen = [u \in Urls |-> NeverSeen]
    /\ dd_last = [u \in Urls |-> NoLast]

(***************************************************************************)
(* The reconciler alone, started on any ledger and any file system.        *)
(***************************************************************************)
\* the i-th record of a ledger: the keys (u1, u2) and their versions
RcKey(i) == [url |-> IF i % 2 = 1 THEN "u1" ELSE "u2", version |-> (i + 1) \div 2]

\* the saved_path values of the ledgers the reconciler is started on
RcPaths ==
    {NoPath}
        \cup {PathOf(abs, Name("a", 0, ".pdf")) : abs \in BOOLEAN}
        \cup {PathOf(abs, Name("b", 0, ".zip")) : abs \in BOOLEAN}
        \cup {PathOf(abs, Name("b", 0, "")) : abs \in BOOLEAN}

RcLedgers ==
    UNION {{[i \in 1..n |->
               Row("2023", RcKey(i).url, sp[i].name, sp[i],
                   [sha256 |-> {Bytes("u1", 1)}], "e1", "m1",
                   RcKey(i).version)] : sp \in [1..n -> RcPaths]} : n \in 0..MaxRows}

RcFileSystems ==
    {[EmptyFs EXCEPT ![Name("a", 0, ".pdf")] = ea,
                     ![Name("b", 0, ".zip")] = ez,
                     ![Name("b", 0, "")] = ed] :
        ea \in {NoEntry, FileEntry(Bytes("u1", 1))},
        ez \in {NoEntry, FileEntry(Bytes("u1", 1))},
        ed \in {NoEntry, FileEntry(Bytes("u1", 1)), DirEntry({Bytes("u1", 1)})}}

InitReconcile ==
    /\ fs \in RcFileSystems
    /\ \E led \in {Absent} \cup {CsvFile(rows) : rows \in RcLedgers} :
          /\ files = [ledger |-> led, tmp |-> Absent]
          /\ rc_pre = led
    /\ lock = "free"
    /\ rc_pc = "start"
    /\ rc_rows = <<>>
    /\ rc_valid = <<>>
    /\ rc_removed = 0
    /\ rc_out = 0
    /\ DdUnused
    /\ CrUnused
    /\ PpUnused
    /\ XtUnused

NextReconcile ==
    \/ RcStart
    \/ RcAcquire
    \/ RcReadFilter
    \/ RcOpenTmp
    \/ RcWriteHeader
    \/ RcWriteRow
    \/ RcReplace
    \/ RcRaise
    \/ RcRelease
    \/ RcCrash
    \/ RcRestart

SpecReconcile == InitReconcile /\ [][NextReconcile]_vars

(***************************************************************************)
(* The reconciler next to another process that takes the lock of the       *)
(* ledger: a crawler, whose ManifestState locks the same file.  The        *)
(* reconciler keeps running; the other process may hold the lock as long   *)
(* as it likes.                                                            *)
(***************************************************************************)
\* another process takes the lock
OtherAcquire ==
    /\ lock = "free"
    /\ lock' = "other"
    /\ UNCHANGED <<fs, files, rcLocals>>
    /\ UNCHANGED <<ddVars, crVars, ppVars>>
    /\ UNCHANGED xtVars

\* the other process lets go of the lock
OtherRelease ==
    /\ lock = "other"
    /\ lock' = "free"
    /\ UNCHANGED <<fs, files, rcLocals>>
    /\ UNCHANGED <<ddVars, crVars, ppVars>>
    /\ UNCHANGED xtVars

\* the steps the reconciler takes by itself
RcSteps ==
    \/ RcStart
    \/ RcAcquire
    \/ RcReadFilter
    \/ RcOpenTmp
    \/ RcWriteHeader
    \/ RcWriteRow
    \/ RcReplace
    \/ RcRelease

NextLockWait ==
    \/ NextReconcile
    \/ OtherAcquire
    \/ OtherRelease

SpecLockWait == InitReconcile /\ [][NextLockWait]_vars /\ WF_vars(RcSteps)

(***************************************************************************)
(* The direct-download scraper run up to MaxRuns times against a changing  *)
(* site.                                                                   *)
(***************************************************************************)
RcUnused ==
    /\ files = [ledger |-> Absent, tmp |-> Absent]
    /\ lock = "free"
    /\ rc_pc = "unused"
    /\ rc_rows = <<>>
    /\ rc_valid = <<>>
    /\ rc_removed = 0
    /\ rc_out = 0
    /\ rc_pre = Absent

\* the manifest file a first run may find: none, or (followed for the variant
\* with _url_meta) one that is no dictionary; one that does not parse is
\* what a terminated save leaves to the next run
DdFirstDisks(variant) ==
    {DiskAbsent} \cup (IF variant = "headers" THEN {DiskWrongShape} ELSE {})

InitDirect ==
    /\ fs = EmptyFs
    /\ remote \in {rm \in [Urls -> {r \in RemoteStates : r.n = 1}] :
                     \A u \in Urls \ ChangingUrls : rm[u].etag = rm[u].lm \/ rm[u].etag = "e1"}
    /\ dd_variant \in {"headers", "flat"}
    /\ dd_links \in DdLinkLists
    /\ dd_disk \in DdFirstDisks(dd_variant)
    /\ dd_mem = EmptyManifest
    /\ dd_pc = "idle"
    /\ dd_i = 1
    /\ dd_run = 0
    /\ dd_seen = [u \in Urls |-> NeverSeen]
    /\ dd_last = [u \in Urls |-> NoLast]
    /\ RcUnused
    /\ CrUnused
    /\ PpUnused
    /\ XtUnused

NextDirect ==
    \/ DdStart
    \/ DdItem
    \/ DdSaveOpen
    \/ DdSaveDump
    \/ DdKill
    \/ DdRemoteChange
    \/ DdDeleteFile

SpecDirect == InitDirect /\ [][NextDirect]_vars

(***************************************************************************)
(* The crawler run up to CrMaxRuns times against a changing site, with     *)
(* files deleted by hand and the reconciler run between its runs.          *)
(***************************************************************************)
\* a file left on disk by a run that ended before the ledger was written
OrphanFs == [EmptyFs EXCEPT ![Name("a", 0, ".pdf")] = FileEntry(Bytes("u1", 1))]

InitCrawl ==
    /\ fs \in {EmptyFs, OrphanFs}
    /\ files = [ledger |-> Absent, tmp |-> Absent]
    /\ lock = "free"
    /\ rc_pc = "unused"
    /\ rc_rows = <<>>
    /\ rc_valid = <<>>
    /\ rc_removed = 0
    /\ rc_out = 0
    /\ rc_pre = Absent
    /\ remote \in {rm \in [Urls -> {r \in RemoteStates : r.n = 1}] :
                     /\ \A u \in Urls \ ChangingUrls :
                           rm[u].etag = "e1" /\ rm[u].lm = "m1"
                     /\ \A u \in ChangingUrls :
                           rm[u].etag \in {"", "e1"} /\ rm[u].lm \in {"", "m1"}}
    /\ dd_variant = "headers"
    /\ dd_links = <<>>
    /\ dd_disk = DiskAbsent
    /\ dd_mem = EmptyManifest
    /\ dd_pc = "unused"
    /\ dd_i = 1
    /\ dd_run = 0
    /\ dd_seen = [u \in Urls |-> NeverSeen]
    /\ dd_last = [u \in Urls |-> NoLast]
    /\ cr_mode \in Modes
    /\ cr_links \in CrLinkLists
    /\ cr_rows = <<>>
    /\ cr_pc = "idle"
    /\ cr_i = 1
    /\ cr_run = 0
    /\ cr_plan = NoDecision
    /\ cr_head = HeadFailed
    /\ cr_versioned = FALSE
    /\ cr_saved = NoPath
    /\ counts = NoCounts
    /\ cr_exit = NoExit
    /\ PpUnused
    /\ XtUnused

NextCrawl ==
    \/ CrStart
    \/ CrPlan
    \/ CrDownload
    \/ CrExtract
    \/ CrUnlink
    \/ CrFinish
    \/ CrExit
    \/ CrRemoteChange
    \/ CrDeleteFile
    \/ CrReconcile

SpecCrawl == InitCrawl /\ [][NextCrawl]_vars

(***************************************************************************)
(* Two direct-download scrapers started on an empty output folder.         *)
(***************************************************************************)
InitConcurrent ==
    /\ fs = EmptyFs
    /\ RcUnused
    /\ CrUnused
    /\ remote \in {rm \in [Urls -> {r \in RemoteStates : r.n = 1}] :
                     \A u \in Urls : rm[u].etag \in {"", "e1"} /\ rm[u].lm \in {"", "m1"}}
    /\ dd_variant \in {"headers", "flat"}
    /\ dd_links \in DdLinkLists
    /\ dd_disk = DiskAbsent
    /\ dd_mem = EmptyManifest
    /\ dd_pc = "unused"
    /\ dd_i = 1
    /\ dd_run = 0
    /\ dd_seen = [u \in Urls |-> NeverSeen]
    /\ dd_last = [u \in Urls |-> NoLast]
    /\ pp_pc = [p \in Procs |-> "idle"]
    /\ pp_mem = [p \in Procs |-> EmptyManifest]
    /\ pp_i = [p \in Procs |-> 1]
    /\ XtUnused

NextConcurrent ==
    \/ \E p \in Procs : PpStart(p)
    \/ \E p \in Procs : PpItem(p)
    \/ \E p \in Procs : PpSaveOpen(p)
    \/ \E p \in Procs : PpSaveDump(p)

SpecConcurrent == InitConcurrent /\ [][NextConcurrent]_vars

InitRetry ==
    /\ fs = EmptyFs
    /\ RcUnused
    /\ DdUnused
    /\ CrUnused
    /\ PpUnused
    /\ rt_fn = "retrying_get"
    /\ rt_pc = "idle"
    /\ rt_hist = <<>>
    /\ rt_sleeps = <<>>
    /\ rt_backoff = 1
    /\ PlUnused

NextRetry ==
    \/ RtCall
    \/ RtAttempt
    \/ RtSleep

SpecRetry == InitRetry /\ [][NextRetry]_vars

(***************************************************************************)
(* The pipeline started again and again: nothing changes on the site and   *)
(* nothing is changed by hand on disk.                                     *)
(***************************************************************************)
\* the link lists the page of the yearbook may give
PlLinkLists ==
    {<<Link("u1", Name(s, 0, ".pdf"))>> : s \in PlStems}
        \cup {<<Link("u1", Name(s, 0, ".zip"))>> : s \in {"yearbook_1996", "yearbook_1997"}}
        \cup {<<Link("u1", Name("yearbook_1996", 0, ".pdf")),
                Link("u2", Name("yearbook_1997", 0, ".pdf"))>>}

\* the yearbooks the site may list: sorted by year, newest first
PlSites == {<<Year>>, <<CombinedYear>>, <<Year, CombinedYear>>}

InitPipeline ==
    /\ fs = [pl \in PlPlaces |-> NoEntry]
    /\ files = [ledger |-> Absent, tmp |-> Absent]
    /\ lock = "free"
    /\ rc_pc = "unused"
    /\ rc_rows = <<>>
    /\ rc_valid = <<>>
    /\ rc_removed = 0
    /\ rc_out = 0
    /\ rc_pre = Absent
    /\ remote \in {rm \in [Urls -> {r \in RemoteStates : r.n = 1}] :
                     /\ \A u \in Urls \ ChangingUrls :
                           rm[u].etag = "e1" /\ rm[u].lm = "m1"
                     /\ \A u \in ChangingUrls :
                           rm[u].etag \in {"", "e1"} /\ rm[u].lm \in {"", "m1"}}
    /\ dd_variant = "headers"
    /\ dd_links = <<>>
    /\ dd_disk = DiskAbsent
    /\ dd_mem = EmptyManifest
    /\ dd_pc = "unused"
    /\ dd_i = 1
    /\ dd_run = 0
    /\ dd_seen = [u \in Urls |-> NeverSeen]
    /\ dd_last = [u \in Urls |-> NoLast]
    /\ cr_mode = MODE
    /\ cr_links \in PlLinkLists
    /\ cr_rows = <<>>
    /\ cr_pc = "unused"
    /\ cr_i = 1
    /\ cr_run = 0
    /\ cr_plan = NoDecision
    /\ cr_head = HeadFailed
    /\ cr_versioned = FALSE
    /\ cr_saved = NoPath
    /\ counts = NoCounts
    /\ cr_exit = NoExit
    /\ PpUnused
    /\ RtUnused
    /\ pl_pc = "idle"
    /\ pl_site \in PlSites
    /\ pl_year = Head(pl_site)
    /\ pl_rest = <<>>
    /\ pl_errors = 0
    /\ pl_page = "none"
    /\ pl_cycle = 0
    /\ pl_i = 1
    /\ pl_status = Statuses(-1, -1, -1)
    /\ pl_tmp = {}
    /\ pl_fetched = [k \in PlFolders \X Urls |-> 0]

NextPipeline ==
    \/ PlStart
    \/ PlReconcile
    \/ PlCrawlStart
    \/ PlLinks
    \/ PlItem
    \/ PlReorganize
    \/ PlCleanupTmp
    \/ PlExit

SpecPipeline == InitPipeline /\ [][NextPipeline]_vars

(***************************************************************************)
(* Properties of the reconciler.                                           *)
(***************************************************************************)
Range(s) == {s[i] : i \in DOMAIN s}

\* the record's saved_path names nothing on disk
RowMissing(f, r) == r.saved_path = NoPath \/ ~PathExists(f, r.saved_path)

\* the record's saved_path is a '.zip' and the directory of the same name
\* without the suffix exists
RowHasExtractedDir(f, r) ==
    /\ r.saved_path # NoPath
    /\ EndsWithZip(r.saved_path)
    /\ PathIsDir(f, WithSuffixNone(r.saved_path))

RcKeptOf(f, rows) == SelectSeq(rows, LAMBDA r : ~RowMissing(f, r))

RcCompleted == rc_pc = "done" /\ rc_pre.present

\* C2: when cleanup_manifest has completed, the ledger on disk holds every
\* record whose saved_path exists (file or directory), in the original
\* relative order and with all fields unchanged, and holds no record whose
\* saved_path is missing and has no extracted same-stem directory.
C2_ReconcileRemovesExactlyStale ==
    RcCompleted =>
        LET kept == RcKeptOf(fs, rc_pre.rows)
            now == files["ledger"].rows
        IN  /\ SelectSeq(now, LAMBDA r : r \in Range(kept)) = kept
            /\ \A i \in DOMAIN now :
                  ~(RowMissing(fs, now[i]) /\ ~RowHasExtractedDir(fs, now[i]))

\* C2 witness: a three-record ledger whose middle record was stale has been
\* rewritten with the two others kept
C2_Witness ==
    /\ RcCompleted
    /\ Len(rc_pre.rows) = 3
    /\ RowMissing(fs, rc_pre.rows[2])
    /\ ~RowHasExtractedDir(fs, rc_pre.rows[2])
    /\ files["ledger"].rows = <<rc_pre.rows[1], rc_pre.rows[3]>>
    /\ PathIsDir(fs, rc_pre.rows[3].saved_path)

\* C3: when cleanup_manifest has completed, every record whose saved_path
\* was a missing '.zip' with an existing same-stem directory is still in the
\* ledger on disk, with the directory as its saved_path.
C3_ArchiveRuleRedirects ==
    RcCompleted =>
        \A i \in DOMAIN rc_pre.rows :
            LET r == rc_pre.rows[i]
            IN  (RowMissing(fs, r) /\ RowHasExtractedDir(fs, r)) =>
                    \E j \in DOMAIN files["ledger"].rows :
                        LET q == files["ledger"].rows[j]
                        IN  /\ q.period = r.period
                            /\ q.url = r.url
                            /\ q.version = r.version
                            /\ q.saved_path.name = WithSuffixNone(r.saved_path).name
                            /\ PathIsDir(fs, q.saved_path)

\* C4: at every step of cleanup_manifest, and after a termination at any
\* step, the ledger file is its complete content from before the run or
\* the complete filtered content, never a partial intermediate.
C4_CrashSafeLedgerWrite ==
    \/ files["ledger"] = rc_pre
    \/ files["ledger"] = CsvFile(FilterRows(fs, rc_pre.rows).valid)

\* C4 witness: terminated while the rows were being written, part of them
\* out, the ledger still whole
C4_Witness ==
    /\ rc_pc = "crashed"
    /\ rc_out > 0
    /\ rc_out < Len(rc_valid)
    /\ files["tmp"].present
    /\ files["ledger"] = rc_pre

(***************************************************************************)
(* Properties of the direct-download scraper.                              *)
(***************************************************************************)
DdSkipped(l) == l.outcome \in {"skip_headers", "skip_hash"}

C7_HeaderShortCircuit ==
    \A u \in Urls :
        (dd_last[u].done /\ dd_last[u].sameKey) =>
        (dd_last[u].outcome = "skip_headers" /\ dd_last[u].gets = 0)

\* C7 witness: a url serving validators was skipped on them in the second run
C7_Witness ==
    \E u \in Urls :
        /\ dd_last[u].done /\ dd_last[u].sameKey /\ dd_last[u].validators
        /\ dd_last[u].outcome = "skip_headers"
        /\ dd_run = 2

\* C9: a recorded item that the header gate does not skip has its remote
\* bytes fetched and compared with the stored hash, so an item whose remote
\* content differs from the recorded content is fetched and never skipped.
C9_ContentGate ==
    \A u \in Urls :
        (dd_last[u].done /\ dd_last[u].recorded /\ dd_last[u].contentNew
            /\ dd_last[u].outcome # "skip_headers") =>
        (dd_last[u].gets = 1 /\ dd_last[u].outcome \in {"downloaded", "failed"})

\* C10: an item is skipped by the header gate only when the HEAD request
\* succeeded, carried an ETag or a Last-Modified, and these equal the
\* stored ones.
C10_BestEffortHeaderGate ==
    \A u \in Urls :
        (dd_last[u].done /\ dd_last[u].outcome = "skip_headers") =>
        (dd_last[u].headOk /\ dd_last[u].validators /\ dd_last[u].sameKey)

(***************************************************************************)
(* Properties of the crawler.                                              *)
(***************************************************************************)
\* C5: in safe mode, when download_and_record is called for a recorded
\* (period, url) whose remote content differs from the current record and
\* the download succeeds, exactly one row is added for the key, its version
\* is the previous version + 1, every older row is left as it was, and the
\* files saved for the earlier versions of the key are still on disk with
\* their content; two successive changes so give versions 2 and 3.
C5_VersioningSafeMode ==
    [][(/\ cr_pc = "download"
        /\ cr_mode = "safe"
        /\ InIndex(cr_rows, Period, cr_links[cr_i].url)) =>
       LET u == cr_links[cr_i].url
           cur == cr_rows[CurrentRow(cr_rows, Period, u)]
           n == Len(cr_rows)
           new == Bytes(u, remote[u].n)
       IN  /\ (cur.hash # ContentHash(new) /\ counts'.errors = counts.errors)
                 => cr_saved' # NoPath
           /\ cr_saved' # NoPath =>
                 /\ Len(cr_rows') = n + 1
                 /\ SubSeq(cr_rows', 1, n) = cr_rows
                 /\ cr_rows'[n + 1].period = Period
                 /\ cr_rows'[n + 1].url = u
                 /\ cr_rows'[n + 1].version = cur.version + 1
                 /\ cr_rows'[n + 1].hash = ContentHash(new)
                 /\ cr_rows'[n + 1].saved_path = cr_saved'
                 /\ fs'[cr_saved'.name] = FileEntry(new)
                 /\ files'["ledger"] = CsvFile(cr_rows')
                 /\ \A i \in KeyRows(cr_rows, Period, u) :
                       /\ cr_rows[i].version < cr_rows'[n + 1].version
                       /\ PathExists(fs, cr_rows[i].saved_path) =>
                             fs'[cr_rows[i].saved_path.name]
                                 = fs[cr_rows[i].saved_path.name]
      ]_vars

\* C5 witness: after two changes of the content of u1 the ledger holds
\* versions 1, 2 and 3 of it and the three files are on disk
C5_Witness ==
    /\ cr_mode = "safe"
    /\ cr_pc = "finish"
    /\ Len(cr_rows) = 3
    /\ files["ledger"] = CsvFile(cr_rows)
    /\ \A i \in 1..3 :
          /\ cr_rows[i].url = "u1"
          /\ cr_rows[i].version = i
          /\ cr_rows[i].filename = Name("a", IF i = 1 THEN 0 ELSE i, ".pdf")
          /\ fs[cr_rows[i].saved_path.name] = FileEntry(Bytes("u1", i))

\* C6: in overwrite mode, when download_and_record is called for a recorded
\* (period, url) whose remote content differs from the current record and
\* the download succeeds, the row of the key is updated in place (same
\* position, new hash), no row is added, every other row is left as it was,
\* and the file at the saved path holds the new content and nothing else.
C6_OverwriteMode ==
    [][(/\ cr_pc = "download"
        /\ cr_mode = "overwrite"
        /\ InIndex(cr_rows, Period, cr_links[cr_i].url)) =>
       LET u == cr_links[cr_i].url
           at == CurrentRow(cr_rows, Period, u)
           cur == cr_rows[at]
           new == Bytes(u, remote[u].n)
       IN  /\ (cur.hash # ContentHash(new) /\ counts'.errors = counts.errors)
                 => cr_saved' # NoPath
           /\ cr_saved' # NoPath =>
                 /\ Len(cr_rows') = Len(cr_rows)
                 /\ \A i \in DOMAIN cr_rows \ {at} : cr_rows'[i] = cr_rows[i]
                 /\ cr_rows'[at].period = Period
                 /\ cr_rows'[at].url = u
                 /\ cr_rows'[at].hash = ContentHash(new)
                 /\ cr_rows'[at].saved_path = cr_saved'
                 /\ ~IsZip(cr_saved') => cr_saved' = cur.saved_path
                 /\ fs'[cr_saved'.name] = FileEntry(new)
                 /\ files'["ledger"] = CsvFile(cr_rows')
      ]_vars

\* C6 witness: the second content of u1 was written over the first and the
\* single row carries its hash
C6_Witness ==
    /\ cr_mode = "overwrite"
    /\ cr_run >= 2
    /\ counts.downloaded = 1
    /\ Len(cr_rows) = 1
    /\ cr_rows[1].url = "u1"
    /\ cr_rows[1].hash = ContentHash(Bytes("u1", 2))
    /\ cr_rows[1].saved_path = PathOf(FALSE, Name("a", 0, ".pdf"))
    /\ fs[Name("a", 0, ".pdf")] = FileEntry(Bytes("u1", 2))
    /\ files["ledger"] = CsvFile(cr_rows)

\* C8: plan for a (period, url) without a record decides fresh; the
\* successful download_and_record that follows leaves exactly one row for
\* the key, with version 1; a plan that then finds the validators of the
\* record served again decides skip, unchanged-by-headers, and nothing is
\* downloaded or written.
C8_FirstObservation ==
    [][/\ (cr_pc = "plan" /\ ~InIndex(cr_rows, Period, cr_links[cr_i].url))
             => cr_plan'.decision = "fresh"
       /\ (cr_pc = "download" /\ cr_plan.decision = "fresh"
              /\ cr_saved' # NoPath) =>
             LET ks == KeyRows(cr_rows', Period, cr_links[cr_i].url)
             IN  /\ Cardinality(ks) = 1
                 /\ \A i \in ks : cr_rows'[i].version = 1
                 /\ files'["ledger"] = CsvFile(cr_rows')
       /\ (/\ cr_pc = "plan"
           /\ InIndex(cr_rows, Period, cr_links[cr_i].url)
           /\ ValidatorsAvailable(cr_head')
           /\ LET cur == cr_rows[CurrentRow(cr_rows, Period, cr_links[cr_i].url)]
              IN  cr_head'.etag = cur.etag /\ cr_head'.lm = cur.last_modified) =>
             /\ cr_plan' = Decision("skip", "unchanged-by-headers")
             /\ cr_pc' # "download"
             /\ counts'.skipped = counts.skipped + 1
             /\ cr_rows' = cr_rows
             /\ fs' = fs
             /\ files' = files
      ]_vars

\* C8 witness: u1 was downloaded as version 1 by the first run and skipped
\* on its unchanged headers by the second
C8_Witness ==
    /\ cr_run = 2
    /\ cr_plan = Decision("skip", "unchanged-by-headers")
    /\ counts.skipped = 1
    /\ Len(cr_rows) = 1
    /\ cr_rows[1].url = "u1"
    /\ cr_rows[1].version = 1
    /\ cr_rows[1].etag = "e1"
    /\ fs[Name("a", 0, ".pdf")] = FileEntry(Bytes("u1", 1))

(***************************************************************************)
(* Locking.                                                                *)
(***************************************************************************)
\* C11: whenever cleanup_manifest has returned or has raised, it does not
\* hold the ledger lock: the lock taken at line 24 was released on the way
\* out, whether the function completed, found nothing to remove, or an
\* exception was raised while reading, filtering or writing.
C11_ScopedLockRelease ==
    rc_pc \in {"done", "raised"} => lock # "reconcile"

\* C11 witness: an exception raised while the rows were being written left
\* the function with the lock free
C11_Witness ==
    /\ rc_pc = "raised"
    /\ lock = "free"
    /\ files["tmp"].present
    /\ rc_out > 0
    /\ rc_out < Len(rc_valid)

\* a process has the manifest open for writing
PpWriting(p) == pp_pc[p] = "dump"

\* C12: every write of the ledger file runs under the exclusive lock, so
\* two processes never have a write of the same ledger in progress at the
\* same time.
C12_MutualExclusionOfWrites ==
    \A p, q \in Procs : (PpWriting(p) /\ PpWriting(q)) => p = q

\* the records process p holds that the manifest on disk does not
PpLost(p) ==
    {k \in DdKeys : /\ pp_mem[p].files[k].present
                    /\ ~load_manifest(dd_disk).files[k].present}

\* C13: when two processes working on the same ledger have both finished
\* and the ledger file is whole, it holds the records each of them added:
\* no update of one is lost to the write of the other.
C13_SerializedReadThenWrite ==
    ((\A p \in Procs : pp_pc[p] = "done") /\ dd_disk.state = "whole")
        => \A p \in Procs : PpLost(p) = {}

IsPartial(e) == e.kind = "file" /\ \E u \in Urls : PartialBytes(u) \in e.data

\* a file that holds a whole body
IsComplete(e) == e.kind = "file" /\ ~IsPartial(e)

\* C15: during and after a download that fails or is interrupted, the final
\* path of the artifact holds no file or a complete artifact: a partly
\* written body is never at the final path, and a complete artifact that was
\* there is not destroyed by the attempt.
C15_StagedWrites ==
    [][\A n \in DdFilenames :
          /\ ~IsPartial(fs'[n])
          /\ IsComplete(fs[n]) => IsComplete(fs'[n])]_vars

\* the entry the manifest file held for a link when the run loaded it
DdLoadedEntry(link) == load_manifest(dd_disk).files[FileKey(Year, link.filename)]

\* C16: an item that the manifest recorded when the run started, whose file
\* had been deleted from disk and whose remote content and headers are as they
\* were, is requested again after cleanup_manifest has dropped its entry, and
\* is recorded again when the download succeeds.
C16_StaleEntryRedownload ==
    \A i \in DOMAIN dd_links :
        LET link == dd_links[i]
            l == dd_last[link.url]
        IN  (/\ dd_variant = "headers"
             /\ l.done /\ l.again /\ l.unchanged /\ ~l.onDisk
             /\ DdLoadedEntry(link).present
             /\ DdLoadedEntry(link).url = link.url) =>
            (/\ l.gets = 1
             /\ l.dl = "ok" => dd_mem.files[FileKey(Year, link.filename)].present)

CrLedgerRecord(file) ==
    file.rows[CurrentRow(file.rows, Period, cr_links[cr_i].url)]

C19_CorruptArchive ==
    [][(cr_pc = "extract" /\ cr_pc' # "unlink") =>
          /\ fs'[cr_saved.name] = fs[cr_saved.name]
          /\ fs'[cr_saved.name].kind = "file"
          /\ files' = files
          /\ InIndex(files'["ledger"].rows, Period, cr_links[cr_i].url)
          /\ CrLedgerRecord(files'["ledger"]).saved_path = cr_saved]_vars

\* C19 witness: the expansion of the last candidate's archive failed: the
\* archive is on disk and the ledger file's record of the key points to it
C19_Witness ==
    /\ cr_pc = "finish"
    /\ cr_saved # NoPath /\ IsZip(cr_saved)
    /\ PathExists(fs, cr_saved)
    /\ fs[cr_saved.name] = FileEntry(Bytes(cr_links[Len(cr_links)].url,
                                           remote[cr_links[Len(cr_links)].url].n))
    /\ \E i \in DOMAIN files["ledger"].rows :
          /\ files["ledger"].rows[i].url = cr_links[Len(cr_links)].url
          /\ files["ledger"].rows[i].saved_path = cr_saved

\* the candidates counted so far in the run
CountedItems ==
    counts.downloaded + counts.versioned + counts.skipped + counts.unchanged
        + counts.errors

\* the candidates whose file is on disk at the expected path and that have
\* no record
LeftUnregistered ==
    {i \in DOMAIN cr_links :
        IsOrphan(cr_rows, fs, Period, cr_links[i].url,
                 PathOf(FALSE, cr_links[i].filename))}

C21_ExitStatus ==
    cr_pc = "exit" => (cr_exit.code # 0 <=> cr_exit.discovery # "ok")

(***************************************************************************)
(* Properties of the retrying requests.                                    *)
(***************************************************************************)
\* C22: an attempt is followed by another attempt only when it failed with a
\* transient failure (timeout, connection error, HTTP 429 or 5xx); after a
\* 4xx other than 429 no further attempt is made.
C22_RetryClassification ==
    \A k \in 1..(Len(rt_hist) - 1) : Transient(rt_hist[k])

\* the delays doubling from one second: 1, 2, 4, ...
DoublingFromOne(sleeps) == \A k \in DOMAIN sleeps : sleeps[k] = Power(2, k - 1)

DdMalformed(disk) == disk.state \in {"partial", "wrong_shape"}

\* C24: a run that finds a malformed manifest file takes the manifest as
\* empty and goes on without raising, and leaves the file as it found it
\* until it saves.
C24_MalformedLedger ==
    [][(dd_run' = dd_run + 1 /\ DdMalformed(dd_disk)) =>
          /\ dd_pc' \in {"items", "save"}
          /\ dd_mem' = EmptyManifest
          /\ dd_disk' = dd_disk]_vars

\* C25: when the process is terminated during save_manifest, the manifest
\* file holds its complete previous content or its complete new content.
C25_AtomicManifestReplace ==
    dd_pc = "killed" => dd_disk.state # "partial"

\* C26: cleanup_manifest returns the number of records it removed, which is
\* the number of records the ledger held before the call minus the number it
\* holds after it.
C26_ReconcileResult ==
    RcCompleted =>
        cleanup_manifest_returns(rc_removed)
            = ReturnedNumber(Len(rc_pre.rows) - Len(files["ledger"].rows))

\* C27: whenever the processing of a link writes a 'files' record, the
\* download of that link succeeded and the record's hash is the hash of the
\* bytes that are on disk at the record's path at that moment.
C27_HashProvenance ==
    [][dd_pc = "items" =>
        LET link == dd_links[dd_i]
            key == FileKey(Year, link.filename)
        IN  \A k \in DdKeys :
               dd_mem'.files[k] # dd_mem.files[k] =>
                  /\ k = key
                  /\ dd_last'[link.url].dl = "ok"
                  /\ dd_mem'.files[k].present
                  /\ dd_mem'.files[k].url = link.url
                  /\ fs'[link.filename] = FileEntry(Bytes(link.url, remote[link.url].n))
                  /\ dd_mem'.files[k].hash = [sha256 |-> fs'[link.filename].data]]_vars

\* C27 witness: a link was downloaded and recorded, and the hash of its
\* record is that of the bytes at its path
C27_Witness ==
    \E i \in DOMAIN dd_links :
        LET link == dd_links[i]
            rec == dd_mem.files[FileKey(Year, link.filename)]
        IN  /\ dd_last[link.url].dl = "ok"
            /\ dd_last[link.url].outcome = "downloaded"
            /\ rec.present /\ rec.url = link.url
            /\ fs[link.filename].kind = "file"
            /\ rec.hash = [sha256 |-> {Bytes(link.url, remote[link.url].n)}]
            /\ rec.hash = [sha256 |-> fs[link.filename].data]

(***************************************************************************)
(* Properties of the pipeline.                                             *)
(***************************************************************************)
\* the crawler saves a file of the link at pl_i in this step
PlSaves ==
    /\ pl_pc = "item"
    /\ \E pl \in DOMAIN fs : fs'[pl] # fs[pl] /\ fs[pl].kind \in {"none", "file"}

\* C28: on a site that does not change and a disk nobody touches, a cycle
\* of the pipeline after the first removes no record from the ledger and
\* saves no file that an earlier cycle has saved
C28_IncrementalRuns ==
    [][pl_cycle >= 2 =>
          /\ pl_pc = "reconcile" =>
                Len(files'["ledger"].rows) >= Len(files["ledger"].rows)
          /\ ~(PlSaves /\ pl_fetched[<<pl_year, cr_links[pl_i].url>>] \in 1..(pl_cycle - 1))]_vars

\* C30: the crawler is started only when the reconciler has ended with
\* status 0; when the reconciler fails the crawler is not run and the
\* pipeline ends with status 1; when the crawler fails the pipeline ends
\* with status 1
C30_PipelineOrdering ==
    /\ pl_pc \in {"item", "reorganize", "cleanup_tmp"} => pl_status.reconcile = 0
    /\ pl_status.crawl # -1 => pl_status.reconcile = 0
    /\ pl_pc = "exit" =>
          /\ pl_status.reconcile > 0 =>
                pl_status.crawl = -1 /\ pl_status.pipeline = 1
          /\ pl_status.crawl > 0 => pl_status.pipeline = 1

\* the reconciler has failed and the pipeline has ended
C30_Witness ==
    /\ pl_pc = "exit"
    /\ pl_status = Statuses(1, -1, 1)
    /\ pl_cycle = 2
    /\ files["ledger"].present

\* the rows of one key have distinct version numbers, and the current record
\* of the key, its latest row, has the highest
KeyUnique(rows) ==
    \A i, j \in DOMAIN rows :
        (i < j /\ rows[i].period = rows[j].period /\ rows[i].url = rows[j].url) =>
            /\ rows[i].version # rows[j].version
            /\ (\A k \in (j + 1)..Len(rows) :
                   ~(rows[k].period = rows[j].period /\ rows[k].url = rows[j].url)) =>
                  rows[j].version > rows[i].version

\* C29: whatever plan, registration, download, archive redirect and
\* reconciliation have done, the rows of a (period, url) key carry distinct
\* version numbers and the current record is the one with the highest, in
\* the rows ManifestState holds and in the ledger file
C29_KeyUniqueness ==
    /\ KeyUnique(cr_rows)
    /\ KeyUnique(files["ledger"].rows)

\* the first version of a key was removed by the reconciler and a third one
\* recorded after the second
C29_Witness ==
    /\ Len(files["ledger"].rows) = 2
    /\ files["ledger"].rows[1].url = files["ledger"].rows[2].url
    /\ files["ledger"].rows[1].version = 2
    /\ files["ledger"].rows[2].version = 3
    /\ cr_pc = "finish"

(***************************************************************************)
(* Properties of a run that ends early, and of the counters.               *)
(***************************************************************************)
\* C31: when a run of the direct-download scraper is interrupted while it
\* processes an item, the manifest on disk holds the record of every item
\* the run has downloaded before
C31_DurableBookkeeping ==
    \A p \in Procs : pp_pc[p] = "killed" => PpLost(p) = {}

\* C32: when the page of a yearbook gives no link, the ledger, the rows
\* held in memory and the counters stay as they are, no error is logged,
\* and the crawler goes on to the next yearbook, or to the end of the run
\* after the last one
C32_EmptyDiscovery ==
    [][(pl_pc = "links" /\ pl_page' = "empty") =>
          /\ files' = files
          /\ cr_rows' = cr_rows
          /\ counts' = counts
          /\ pl_errors' = pl_errors
          /\ fs' = fs
          /\ IF pl_rest # <<>>
             THEN pl_pc' = "links" /\ pl_year' = Head(pl_rest)
             ELSE pl_pc' = "reorganize"]_vars

\* in a second cycle the first of two yearbooks gave no link and the
\* crawler is at the second, with the ledger of the first cycle
C32_Witness ==
    /\ pl_pc = "links"
    /\ pl_page = "empty"
    /\ Len(pl_site) = 2
    /\ pl_year = pl_site[2]
    /\ pl_cycle = 2
    /\ files["ledger"].present
    /\ files["ledger"].rows # <<>>

OwnFileKey(i) ==
    \A j \in DOMAIN dd_links : j # i => dd_links[j].filename # dd_links[i].filename

\* C34: an item the direct-download scraper processed in an earlier run
\* without a 'files' entry being written for it (its download failed) is,
\* in the next run on unchanged remote headers, not skipped as unchanged by
\* its headers: a download is attempted
C34_FailedDownloadRetried ==
    \A i \in DOMAIN dd_links :
        LET link == dd_links[i]
            l == dd_last[link.url]
        IN  (/\ l.done /\ l.again /\ l.unchanged
             /\ OwnFileKey(i)
             /\ ~l.recorded
             /\ ~DdLoadedEntry(link).present) =>
            (l.outcome # "skip_headers" /\ l.gets = 1)

\* the manifest holds a record of the url whose hash is the hash of bytes
\* fetched from that url
OwnRecord(m, url) ==
    \E key \in DdKeys :
        /\ m.files[key].present
        /\ m.files[key].url = url
        /\ \A b \in m.files[key].hash.sha256 : b.src = url

\* C35: two links of a yearbook with different urls and the same file name,
\* both processed without a failed download, each have a record of their own
\* at the end of the loop, with a hash of bytes fetched from their own url
C35_DistinctUrls ==
    \A i, j \in DOMAIN dd_links :
        (/\ i # j
         /\ dd_links[i].url # dd_links[j].url
         /\ dd_links[i].filename = dd_links[j].filename
         /\ dd_pc = "save"
         /\ \A k \in {i, j} : /\ dd_last[dd_links[k].url].done
                              /\ dd_last[dd_links[k].url].outcome # "failed") =>
        (OwnRecord(dd_mem, dd_links[i].url) /\ OwnRecord(dd_mem, dd_links[j].url))

\* C36: at the summary of a run of the crawler the five counters add up to
\* the number of candidates of the run: each candidate was counted once
C36_SummaryAccounting ==
    cr_pc = "finish" => CountedItems = Len(cr_links)

\* the record is of a candidate whose file this pipeline run was the first to
\* fetch: the run created the record
CreatedThisRun(r) ==
    \E y \in PlFolders, u \in Urls :
        /\ r.period = PeriodOf(y)
        /\ r.url = u
        /\ pl_fetched[<<y, u>>] = pl_cycle

\* C37: when a run of the crawler ends, after the archives were expanded,
\* the 1996-1999 folder reorganized and the temporary folders removed, the
\* saved_path of every record the run created names a file or folder that
\* exists
C37_SavedPathsValid ==
    [][pl_pc = "cleanup_tmp" =>
          \A i \in DOMAIN files'["ledger"].rows :
              CreatedThisRun(files'["ledger"].rows[i]) =>
                  PathExists(fs', files'["ledger"].rows[i].saved_path)]_vars

(***************************************************************************)
(* Properties of repeated reconciliations.                                 *)
(***************************************************************************)
\* C38: a run of cleanup_manifest on a ledger whose records all have an
\* existing saved_path writes nothing, neither the ledger nor the temporary
\* file; and the ledger a completed run leaves is one on which a further run
\* over the same files removes nothing, and a run that removes nothing
\* leaves the ledger file as it found it
C38_ReconcileIdempotent ==
    /\ (rc_pre.present /\ \A i \in DOMAIN rc_pre.rows : ~RowMissing(fs, rc_pre.rows[i])) =>
          /\ files["ledger"] = rc_pre
          /\ files["tmp"] = Absent
          /\ rc_removed = 0
    /\ RcCompleted => FilterRows(fs, files["ledger"].rows).removed = 0
    /\ (rc_pre.present /\ FilterRows(fs, rc_pre.rows).removed = 0) =>
          /\ files["ledger"] = rc_pre
          /\ rc_removed = 0

\* C38 witness: a second run has completed on the two records the first run
\* left of three; it removed nothing and the ledger is as the first run left
\* it
C38_Witness ==
    /\ RcCompleted
    /\ rc_rows = rc_pre.rows
    /\ Len(rc_pre.rows) = 2
    /\ rc_pre.rows[2].url = RcKey(3).url /\ rc_pre.rows[2].version = RcKey(3).version
    /\ rc_removed = 0
    /\ files["ledger"] = rc_pre
    /\ files["tmp"] = Absent

====
